---- MODULE Spec2Model ----
(***************************************************************************)
(* State-machine model of the tailor-cv server routes:                     *)
(*   /api/tailor          (src/unnamed/part_001)                           *)
(*   /api/compile         (src/unnamed/part_002)                           *)
(*   /api/compile/upload  (src/unnamed/part_003)                           *)
(* of the page protection (src/middleware.ts, src/unnamed/part_000) and of *)
(* the browser extension (src/extension: background.js, network.js,        *)
(* popup.js, settings.js).                                                 *)
(* Strings are sequences of tokens (one token per character class that the *)
(* code's regular expressions distinguish), so that trimming, fence        *)
(* stripping and the \documentclass test are computed, not assumed.        *)
(***************************************************************************)
EXTENDS Integers, Sequences, FiniteSets, TLC

VARIABLES
    now,        \* Date.now() in ms
    env,        \* process.env: [GEMINI_API_KEY, GEMINI_MODEL]
    tailorRate, \* part_001: const tailorRate = new Map()
    t,          \* the /api/tailor handler invocation in progress (its locals)
    tg,         \* what an observer saw of that invocation's generative calls
    tw,         \* per client: the current fixed window and the requests admitted in it
    rateMap,    \* part_003: const rateMap = new Map()
    u,          \* the /api/compile/upload handler invocation in progress
    ug,         \* what an observer saw of that invocation's network calls
    uw,         \* as tw, for /api/compile/upload
    fsys,       \* the paths (below os.tmpdir()) the invocation in progress created
    c,          \* the /api/compile handler invocation in progress (part_002)
    cg,         \* what an observer saw of that invocation's network calls
    hs,         \* requests to the rate-limited routes that are handled simultaneously
    up,         \* the answers of a generative API whose behaviour is fixed
    first,      \* per request body, the first answer /api/tailor gave to it
    history,    \* extension: chrome.storage.local's "history"
    sv,         \* extension: the saveToHistory invocations in progress
    saved,      \* extension: the items whose save completed, in that order
    fr,         \* extension: the fetchWithRetry invocation in progress
    rq,         \* extension: the RequestQueue of network.js and navigator.onLine
    pp,         \* extension: the popup's handleGenerateClick in progress
    store,      \* extension: the settings kept in chrome.storage.local
    mw          \* the middleware's answer to the last page request

tailorVars == <<tailorRate, t, tg, tw>>
uploadVars == <<rateMap, u, ug, uw, fsys>>
compileVars == <<c, cg>>
pageVars == <<rq, pp, store, mw>>
extVars == <<hs, up, first, history, sv, saved, fr, pageVars>>
vars == <<now, env, tailorVars, uploadVars, compileVars, extVars>>

----------------------------------------------------------------------------
\* Text tokens

WS == "ws"                    \* one whitespace character (\s)
FENCE == "fence"              \* a Markdown code fence (three backquotes)
TAG == "latex"                \* the fence tag latex|tex
DOCCLASS == "\\documentclass" \* the \documentclass token
X == "x"                      \* any other character

\* JavaScript undefined (an absent JSON field, an unset environment variable)
Undefined == <<"undefined">>

\* JavaScript truthiness of an optional string
Truthy(s) == s # Undefined /\ s # <<>>

Range(s) == {s[k] : k \in 1..Len(s)}

Rep(ch, n) == [k \in 1..n |-> ch]

RECURSIVE LeadWs(_)
LeadWs(s) == IF s = <<>> \/ Head(s) # WS THEN 0 ELSE 1 + LeadWs(Tail(s))

RECURSIVE TrailWs(_)
TrailWs(s) == IF s = <<>> \/ s[Len(s)] # WS THEN 0
              ELSE 1 + TrailWs(SubSeq(s, 1, Len(s) - 1))

DropFirst(s, n) == SubSeq(s, n + 1, Len(s))
DropLast(s, n) == SubSeq(s, 1, Len(s) - n)

\* String.prototype.trim
Trim(s) == IF LeadWs(s) = Len(s) THEN <<>>
           ELSE SubSeq(s, LeadWs(s) + 1, Len(s) - TrailWs(s))

\* `!tex || !tex.trim()`
IsBlank(s) == ~Truthy(s) \/ Trim(s) = <<>>

\* s.replace(/^\s*FENCE(?:latex|tex)?\s*/i, "")
StripLeadingFence(s) ==
    LET r == DropFirst(s, LeadWs(s)) IN
    IF r # <<>> /\ Head(r) = FENCE
    THEN LET r2 == Tail(r)
             r3 == IF r2 # <<>> /\ Head(r2) = TAG THEN Tail(r2) ELSE r2
         IN  DropFirst(r3, LeadWs(r3))
    ELSE s

\* s.replace(/\s*FENCE\s*$/i, "")
StripTrailingFence(s) ==
    LET r == DropLast(s, TrailWs(s)) IN
    IF r # <<>> /\ r[Len(r)] = FENCE
    THEN LET r2 == DropLast(r, 1) IN DropLast(r2, TrailWs(r2))
    ELSE s

stripCodeFences(s) == StripTrailingFence(StripLeadingFence(s))

\* /\\documentclass/.test(tex)
HasDocumentclass(s) == DOCCLASS \in Range(s)

----------------------------------------------------------------------------
\* Bounds of the model

\* requests one client may send to /api/tailor in one behaviour of SpecTailor
MaxTailorArrivals == 1

\* requests one client may send to /api/compile/upload in one behaviour of
\* SpecUpload
MaxUploadArrivals == 1

\* SpecRate: the windows the clock runs through, and the requests a client may
\* send beyond an endpoint's limit
MaxTicks == 2
MaxOverLimit == 2

----------------------------------------------------------------------------
\* Rate limiting (the same code opens POST of part_001 and of part_003)

TAILOR_RATE_WINDOW_MS == 60000
TAILOR_RATE_MAX == 20

UNKNOWN == <<"unknown">>

RECURSIVE FirstField(_)
\* s.split(",")[0]
FirstField(s) == IF s = <<>> \/ Head(s) = "," THEN <<>>
                 ELSE <<Head(s)>> \o FirstField(Tail(s))

\* (req.headers.get("x-forwarded-for") || "").split(",")[0]?.trim() || "unknown"
ClientIp(hdr) ==
    LET h == IF Truthy(hdr) THEN hdr ELSE <<>>
        f == Trim(FirstField(h))
    IN  IF f # <<>> THEN f ELSE UNKNOWN

\* a limiter whose window ends 60 s after the latest request
BumpEntry_Sliding(map, ip, n, window) ==
    LET ent0 == IF ip \in DOMAIN map THEN map[ip]
                ELSE [count |-> 0, resetAt |-> n + window]
        ent1 == IF n > ent0.resetAt THEN [count |-> 0, resetAt |-> n + window]
                ELSE ent0
    IN  [ent1 EXCEPT !.count = @ + 1, !.resetAt = n + window]

\* a limiter that opens a new window at the instant the old one ends
BumpEntry_ResetsAtBoundary(map, ip, n, window) ==
    LET ent0 == IF ip \in DOMAIN map THEN map[ip]
                ELSE [count |-> 0, resetAt |-> n + window]
        ent1 == IF n >= ent0.resetAt THEN [count |-> 0, resetAt |-> n + window]
                ELSE ent0
    IN  [ent1 EXCEPT !.count = @ + 1]

\* const ent = map.get(ip) || { count: 0, resetAt: now + WINDOW };
\* if (now > ent.resetAt) { ent.count = 0; ent.resetAt = now + WINDOW; }
\* ent.count++;
BumpEntry(map, ip, n, window) ==
    LET ent0 == IF ip \in DOMAIN map THEN map[ip]
                ELSE [count |-> 0, resetAt |-> n + window]
        ent1 == IF n > ent0.resetAt THEN [count |-> 0, resetAt |-> n + window]
                ELSE ent0
    IN  [ent1 EXCEPT !.count = @ + 1]

\* map.set(ip, ent)
MapSet(map, k, v) == [x \in (DOMAIN map) \cup {k} |-> IF x = k THEN v ELSE map[x]]

\* if (ent.count > TAILOR_RATE_MAX) return 429
TailorLimited(ent) == ent.count > TAILOR_RATE_MAX

\* What an observer of one endpoint sees of a client: the fixed 60 s window the
\* request at time n falls in, the requests seen in it and the requests
\* admitted in it. A window opens with the first request of the client, or
\* with the first one later than the end of the previous window; `before`
\* tells whether a request of an earlier window was rejected.
ObserveWindow(obs, ip, n, admittedNow) ==
    LET o0 == IF ip \in DOMAIN obs /\ n <= obs[ip].start + 60 * 1000 THEN obs[ip]
              ELSE [start |-> n, seen |-> 0, admitted |-> 0,
                    before |-> ip \in DOMAIN obs /\
                               (obs[ip].before \/ obs[ip].seen > obs[ip].admitted)]
    IN  MapSet(obs, ip, [o0 EXCEPT !.seen = @ + 1,
                                   !.admitted = @ + (IF admittedNow THEN 1 ELSE 0)])

----------------------------------------------------------------------------
\* /api/tailor (part_001; the experience-context variant, lines 219-464, has
\* the same control flow)

JdMinLength == 16
maxRetries == 3

StaticModels == <<
    <<"gemini", "1.5", "flash", "latest">>,
    <<"gemini", "1.5", "flash">>,
    <<"gemini", "1.5", "pro", "latest">>,
    <<"gemini", "1.5", "pro">>,
    <<"gemini", "1.5", "flash", "8b">>,
    <<"gemini", "pro">>,
    <<"gemini", "1.0", "pro">>,
    <<"gemini", "1.0", "pro", "latest">>,
    <<"gemini", "2.0", "flash", "001">>,
    <<"gemini", "2.0", "pro", "001">> >>

\* m.includes(word): model identifiers are sequences of their "-"-separated words
Includes(m, word) == word \in Range(m)

IsTextModel(m) == Truthy(m) /\ ~Includes(m, "embedding") /\ ~Includes(m, "gecko")

\* a candidate list that takes the requested model unfiltered
validModels_KeepsRequested(requestedModel, envModel) ==
    (IF Truthy(requestedModel) THEN <<requestedModel>> ELSE <<>>)
        \o SelectSeq(<<envModel>> \o StaticModels, IsTextModel)

\* [requestedModel, process.env.GEMINI_MODEL, ...].filter(...)
validModels(requestedModel, envModel) ==
    SelectSeq(<<requestedModel, envModel>> \o StaticModels, IsTextModel)

\* a validation that measures the job description untrimmed
JdInvalid_Untrimmed(jd) == ~Truthy(jd) \/ Len(jd) < JdMinLength

\* if (!jd || jd.trim().length < 16)
JdInvalid(jd) == ~Truthy(jd) \/ Len(Trim(jd)) < JdMinLength

\* const key = apiKey || process.env.GEMINI_API_KEY
ResolveKey(apiKey, envKey) == IF Truthy(apiKey) THEN apiKey ELSE envKey

\* Math.pow(2, i) * 1000
BackoffDelay(i) == (2 ^ i) * 1000

NoResp == [status |-> 0, tex |-> Undefined, tried |-> <<>>, error |-> "none"]

Json(status, error) == [NoResp EXCEPT !.status = status, !.error = error]

\* `let lastErr: unknown` (line 67), by the class, status and message of the
\* value caught
NoErr == [kind |-> "none", status |-> 0, message |-> <<>>]

\* the error the SDK call rejected with (lines 74-85): an ApiError carries
\* the status and the error text of the generative API, any other error the
\* text of the failure
SdkFailure(o) ==
    [kind |-> o.kind, status |-> o.status,
     message |-> IF o.kind = "apiError" THEN <<"upstream error text">>
                 ELSE <<"fetch failed">>]

\* encodeURIComponent on one token of a string
EncodeURIComponent(tok) == IF tok = WS THEN "%20" ELSE tok

\* line 179: the URL of the raw-HTTP call, with the key in its query
RawUrl(model, key) ==
    <<"https://generativelanguage.googleapis.com/v1/models/">>
    \o [k \in 1..Len(model) |-> EncodeURIComponent(model[k])]
    \o <<":generateContent?key=">>
    \o [k \in 1..Len(key) |-> EncodeURIComponent(key[k])]

\* a raw-HTTP call whose error names the URL it was sent to
RawFailure_WithUrl(o, url) ==
    [kind |-> "error", status |-> o.status,
     message |-> <<"v1 generateContent failed">> \o url]

\* the Error of rawGenerateV1: line 193 for an answer that is not ok, the
\* rejection of fetch (line 188) otherwise
RawFailure(o, url) ==
    [kind |-> "error", status |-> o.status,
     message |-> IF o.status = 0 THEN <<"fetch failed">>
                 ELSE <<"v1 generateContent failed">>]

\* lines 115-123: what console.error is given when every attempt failed
LogExhausted(lastErr, models) ==
    IF lastErr.kind = "apiError"
    THEN [label |-> "Gemini API error:", status |-> lastErr.status,
          text |-> lastErr.message, models |-> <<>>]
    ELSE [label |-> "Gemini call failed across models (SDK v1beta + HTTP v1)",
          status |-> lastErr.status, text |-> lastErr.message, models |-> models]

\* line 146: console.error("/api/tailor error", err)
LogCaught(message) ==
    [label |-> "/api/tailor error", status |-> 0, text |-> <<message>>,
     models |-> <<>>]

TIdle == [pc |-> "idle", parsed |-> FALSE, ip |-> UNKNOWN, jd |-> Undefined, apiKey |-> Undefined,
          baseTex |-> Undefined, model |-> Undefined, base |-> Undefined,
          models |-> <<>>, idx |-> 0, i |-> 0, delay |-> 0, tex |-> <<>>,
          lastErr |-> NoErr, resp |-> NoResp]

EmptyMap == [x \in {} |-> 0]

\* What an observer of one request sees: whether a generative call was made,
\* how many are in flight, the calls made to the current model in the SDK pass,
\* the raw-HTTP calls made, whether a call followed a textual answer, and how
\* the last SDK call ended ("text", "429", or "error" for any other failure),
\* the URL of the last raw-HTTP call and what was written to the server log.
TgIdle == [called |-> FALSE, inflight |-> 0, modelCalls |-> 0, rawCalls |-> 0,
           gotNonEmpty |-> FALSE, gotNonBlank |-> FALSE,
           callAfterNonEmpty |-> FALSE, callAfterNonBlank |-> FALSE,
           lastSdk |-> "none", url |-> <<>>, logged |-> <<>>]

\* how an SDK call ended, for the observer
SdkEnding(o) ==
    IF o.kind = "text" THEN "text"
    ELSE IF o.kind = "apiError" /\ o.status = 429 THEN "429" ELSE "error"

IssueCall(gg) ==
    [gg EXCEPT !.called = TRUE, !.inflight = @ + 1,
               !.callAfterNonEmpty = @ \/ gg.gotNonEmpty,
               !.callAfterNonBlank = @ \/ gg.gotNonBlank]

ReturnCall(gg, text) ==
    [gg EXCEPT !.inflight = @ - 1,
               !.gotNonEmpty = @ \/ Truthy(text),
               !.gotNonBlank = @ \/ ~IsBlank(text)]

\* a handler that gives the model's answer to a client's first request of a
\* window only, and the base afterwards
TailorFinish_OnlyFirstAnswered(tex, base) ==
    LET clean == Trim(stripCodeFences(tex)) IN
    IF ~HasDocumentclass(clean) \/ tailorRate[t.ip].count > 1
    THEN [NoResp EXCEPT !.status = 200, !.tex = base]
    ELSE [NoResp EXCEPT !.status = 200, !.tex = clean]

\* a fallback that returns the cleaned answer instead of the base
TailorFinish_KeepsAnswer(tex, base) ==
    [NoResp EXCEPT !.status = 200, !.tex = Trim(stripCodeFences(tex))]

\* lines 131-140: strip fences, trim, check \documentclass, answer 200
TailorFinish(tex, base) ==
    LET clean == Trim(stripCodeFences(tex)) IN
    IF ~HasDocumentclass(clean)
    THEN [NoResp EXCEPT !.status = 200, !.tex = base]
    ELSE [NoResp EXCEPT !.status = 200, !.tex = clean]

\* lines 113-128: every attempt failed
TailorExhausted(models) ==
    [NoResp EXCEPT !.status = 502,
                   !.error = "Gemini API call failed. Try a different model.",
                   !.tried = models]
\* a loop that stops only at an answer that looks like a document
GotText_OnlyDocuments(tex) == ~IsBlank(tex) /\ HasDocumentclass(tex)

\* line 96 and line 105: `if (tex && tex.trim()) break`
GotText(tex) == ~IsBlank(tex)

\* a retry loop that runs once more
RetryAgain_OneMore(i) == i <= maxRetries

\* line 71: `i < maxRetries`
RetryAgain(i) == i < maxRetries

\* lines 102-112: iteration k of the raw-HTTP loop, then lines 113-128
RawEnter(tt, gg, k) ==
    IF k > Len(tt.models)
    THEN [t |-> [tt EXCEPT !.pc = "done", !.resp = TailorExhausted(tt.models)],
          g |-> [gg EXCEPT !.logged = Append(@, LogExhausted(tt.lastErr, tt.models))]]
    ELSE [t |-> [tt EXCEPT !.pc = "rawCall", !.idx = k],
          g |-> [IssueCall(gg) EXCEPT
                   !.rawCalls = @ + 1,
                   !.url = RawUrl(tt.models[k],
                                  ResolveKey(tt.apiKey, env.GEMINI_API_KEY))]]

\* line 100: `if (!tex || !tex.trim())` after the SDK loop, else lines 131-140
AfterModels(tt, gg) ==
    IF IsBlank(tt.tex)
    THEN RawEnter(tt, gg, 1)
    ELSE [t |-> [tt EXCEPT !.pc = "done", !.resp = TailorFinish(tt.tex, tt.base)],
          g |-> gg]

\* lines 93-97: iteration k of the SDK loop; generateWithRetry starts with i = 0
SdkEnter(tt, gg, k) ==
    IF k > Len(tt.models)
    THEN AfterModels(tt, gg)
    ELSE [t |-> [tt EXCEPT !.pc = "sdkCall", !.idx = k, !.i = 0],
          g |-> [IssueCall(gg) EXCEPT !.modelCalls = 1]]

\* lines 95-96: generateWithRetry returned `text`
SdkReturned(tt, gg, text) ==
    LET tex == IF Truthy(text) THEN text ELSE <<>>
        t1 == [tt EXCEPT !.tex = tex]
    IN  IF GotText(tex) THEN AfterModels(t1, gg) ELSE SdkEnter(t1, gg, tt.idx + 1)

\* lines 18-49: POST up to the first generative call
TailorStart(in) ==
    LET ip == ClientIp(in.hdr)
        ent == BumpEntry(tailorRate, ip, now, TAILOR_RATE_WINDOW_MS)
        key == ResolveKey(in.apiKey, env.GEMINI_API_KEY)
        t0 == [TIdle EXCEPT !.parsed = in.json, !.ip = ip, !.jd = in.jd, !.apiKey = in.apiKey,
                            !.baseTex = in.baseTex, !.model = in.model]
        end(r) == [t |-> [t0 EXCEPT !.pc = "done", !.resp = r],
                   g |-> IF r.status = 500
                         THEN [TgIdle EXCEPT !.logged = <<LogCaught(r.error)>>]
                         ELSE TgIdle]
    IN  IF ~in.json
        THEN [rate |-> tailorRate, limited |-> FALSE, counted |-> FALSE,
              next |-> end(Json(500, "Internal error"))]
        ELSE [rate |-> MapSet(tailorRate, ip, ent),
              limited |-> TailorLimited(ent), counted |-> TRUE,
              next |->
                IF TailorLimited(ent) THEN end(Json(429, "Too many requests"))
                ELSE IF JdInvalid(in.jd)
                THEN end(Json(400, "JD is required and should be at least 16 characters"))
                ELSE IF ~Truthy(key)
                THEN end(Json(400, "Missing GEMINI_API_KEY (set env or pass apiKey)"))
                ELSE IF ~Truthy(in.baseTex) /\ ~Truthy(env.baseFile)
                THEN end(Json(500, "ENOENT"))
                ELSE SdkEnter([t0 EXCEPT
                                 !.base = IF Truthy(in.baseTex) THEN in.baseTex
                                          ELSE env.baseFile,
                                 !.models = validModels(in.model, env.GEMINI_MODEL)],
                              TgIdle, 1)]

\* A request arrives at /api/tailor and runs to its first await of the network
TailorPOST(in) ==
    /\ t.pc = "idle"
    /\ LET s == TailorStart(in) IN
       /\ tailorRate' = s.rate
       /\ t' = s.next.t
       /\ tg' = s.next.g
       /\ tw' = IF s.counted
                THEN ObserveWindow(tw, ClientIp(in.hdr), now, ~s.limited)
                ELSE tw
    /\ UNCHANGED <<now, env, extVars, compileVars, uploadVars>>

\* the NextResponse is handed to the framework; the invocation is over
TailorReturn ==
    /\ t.pc = "done"
    /\ t' = TIdle
    /\ tg' = TgIdle
    /\ UNCHANGED <<now, env, extVars, compileVars, tailorRate, tw, uploadVars>>

\* a retry loop that backs off after every ApiError, whatever its status
SdkRespond_BacksOffEveryApiError(o) ==
    /\ t.pc = "sdkCall"
    /\ LET g1 == [ReturnCall(tg, IF o.kind = "text" THEN o.text ELSE <<>>)
                    EXCEPT !.lastSdk = SdkEnding(o)]
           n == IF o.kind = "text" THEN SdkReturned(t, g1, o.text)
                ELSE IF o.kind = "apiError"
                THEN [t |-> [t EXCEPT !.pc = "sdkBackoff", !.delay = BackoffDelay(t.i)],
                      g |-> g1]
                ELSE SdkReturned([t EXCEPT !.lastErr = SdkFailure(o)], g1, <<>>)
       IN  t' = n.t /\ tg' = n.g
    /\ UNCHANGED <<now, env, extVars, compileVars, tailorRate, tw, uploadVars>>

\* ai.models.generateContent answers (lines 73-88)
SdkRespond(o) ==
    /\ t.pc = "sdkCall"
    /\ LET g1 == [ReturnCall(tg, IF o.kind = "text" THEN o.text ELSE <<>>)
                    EXCEPT !.lastSdk = SdkEnding(o)]
           n == IF o.kind = "text" THEN SdkReturned(t, g1, o.text)
                ELSE IF o.kind = "apiError" /\ o.status = 429
                THEN [t |-> [t EXCEPT !.pc = "sdkBackoff", !.delay = BackoffDelay(t.i)],
                      g |-> g1]
                ELSE SdkReturned([t EXCEPT !.lastErr = SdkFailure(o)], g1, <<>>)
       IN  t' = n.t /\ tg' = n.g
    /\ UNCHANGED <<now, env, extVars, compileVars, tailorRate, tw, uploadVars>>

\* the backoff timer of line 79 fires; `continue` (line 80)
BackoffElapsed ==
    /\ t.pc = "sdkBackoff"
    /\ LET n == IF RetryAgain(t.i + 1)
                THEN [t |-> [t EXCEPT !.pc = "sdkCall", !.i = @ + 1, !.delay = 0],
                      g |-> [IssueCall(tg) EXCEPT !.modelCalls = @ + 1]]
                ELSE SdkReturned([t EXCEPT !.i = @ + 1, !.delay = 0], tg, <<>>)
       IN  t' = n.t /\ tg' = n.g
    /\ UNCHANGED <<now, env, extVars, compileVars, tailorRate, tw, uploadVars>>

\* rawGenerateV1 settles (lines 104-112, 188-199)
RawRespond(o) ==
    /\ t.pc = "rawCall"
    /\ LET g1 == ReturnCall(tg, IF o.kind = "text" THEN o.text ELSE <<>>)
           n == IF o.kind = "text"
                THEN IF GotText(o.text)
                     THEN [t |-> [t EXCEPT !.pc = "done", !.tex = o.text,
                                           !.resp = TailorFinish(o.text, t.base)],
                           g |-> g1]
                     ELSE RawEnter(t, g1, t.idx + 1)
                ELSE LET e == RawFailure(o, tg.url) IN
                     [t |-> [t EXCEPT !.pc = "done", !.lastErr = e,
                                      !.resp = TailorExhausted(t.models)],
                      g |-> [g1 EXCEPT !.logged =
                                Append(@, LogExhausted(e, t.models))]]
       IN  t' = n.t /\ tg' = n.g
    /\ UNCHANGED <<now, env, extVars, compileVars, tailorRate, tw, uploadVars>>
----------------------------------------------------------------------------
\* /api/compile/upload (part_003)

RATE_LIMIT_WINDOW_MS == 60000
RATE_LIMIT_MAX == 30
MAX_UPLOAD_BYTES == 5242880

\* if (ent.count > RATE_LIMIT_MAX) return 429
UploadLimited(ent) == ent.count > RATE_LIMIT_MAX

\* String.prototype.toLowerCase on the dot-separated parts of a file name
Lower(part) == CASE part = "TEX" -> "tex" [] part = "TAR" -> "tar"
                 [] part = "BZ2" -> "bz2" [] OTHER -> part

LowerParts(parts) == [k \in 1..Len(parts) |-> Lower(parts[k])]

\* s.endsWith("." + suffix[1] + "." + suffix[2] ...), s given by its parts
\* after the first dot
EndsWithExt(parts, suffix) ==
    /\ Len(parts) >= Len(suffix)
    /\ SubSeq(parts, Len(parts) - Len(suffix) + 1, Len(parts)) = suffix

\* const allowed = [".tex", ".tar", ".tar.bz2", ".tbz2", ".tar.bz"]
AllowedExts == {<<"tex">>, <<"tar">>, <<"tar", "bz2">>, <<"tbz2">>, <<"tar", "bz">>}

\* allowed.some((ext) => lower.endsWith(ext))
ExtAllowed(name) == \E e \in AllowedExts : EndsWithExt(LowerParts(name.parts), e)

\* fileLower.endsWith(".tex")
IsTexName(name) == EndsWithExt(LowerParts(name.parts), <<"tex">>)

\* a handler without the size check
TooLarge_Never(size) == FALSE

\* typeof file.size === "number" && file.size > MAX_UPLOAD_BYTES
TooLarge(size) == size > MAX_UPLOAD_BYTES

RECURSIVE Normalize(_, _)
\* path.join: ".." removes the segment before it
Normalize(done, rest) ==
    IF rest = <<>> THEN done
    ELSE IF Head(rest) = ".."
         THEN Normalize(IF done = <<>> THEN <<>> ELSE DropLast(done, 1), Tail(rest))
         ELSE Normalize(Append(done, Head(rest)), Tail(rest))

PathJoin(dir, segs) == Normalize(<<>>, dir \o segs)

\* fs.mkdtempSync(path.join(os.tmpdir(), "latex-upload-")), relative to os.tmpdir()
UploadTmp == <<"latex-upload-XXXXXX">>

\* path.join(tmp, file.name || "upload")
ReceivedPath(name) == PathJoin(UploadTmp, name.segs)

WorkDir == PathJoin(UploadTmp, <<"work">>)
MainPath == PathJoin(WorkDir, <<"main.tex">>)
TarPath == PathJoin(UploadTmp, <<"archive.tar.bz2">>)
TarPath2 == PathJoin(UploadTmp, <<"archive_retry.tar.bz2">>)

\* the segments path.join splits a package file name into at "/"
Segments(file) ==
    IF file = "../../up.sty" THEN <<"..", "..", "up.sty">> ELSE <<file>>

\* path.join(workdir, sty + ".sty")
StyPath(sty) == PathJoin(WorkDir, Segments(sty \o ".sty"))

InsideTmp(p) == Len(p) >= Len(UploadTmp) /\ SubSeq(p, 1, Len(UploadTmp)) = UploadTmp

\* function cleanup() { fs.rmSync(tmp, { recursive: true, force: true }) }
cleanup(files) == {p \in files : ~InsideTmp(p)}

PdfMagic == <<"%", "P", "D", "F">>

\* a signature check that wants more than five bytes
IsPdfHeader_LongerOnly(buf) == Len(buf) > 5 /\ SubSeq(buf, 1, 4) = PdfMagic

\* buf.byteLength > 4 && decode(buf.slice(0, 4)) === "%PDF"
IsPdfHeader(buf) == Len(buf) > 4 /\ SubSeq(buf, 1, 4) = PdfMagic

RECURSIVE MissingNames(_)
\* text.matchAll(/File `([^']+)\.sty' not found/g): in a body, the token
\* "MissingSty" followed by a package name stands for one such message
MissingNames(buf) ==
    IF Len(buf) < 2 THEN <<>>
    ELSE IF Head(buf) = "MissingSty"
         THEN <<buf[2]>> \o MissingNames(DropFirst(buf, 2))
         ELSE MissingNames(Tail(buf))

RECURSIVE Dedupe(_)
\* Array.from(new Set(missing)): first occurrences, in order
Dedupe(s) ==
    IF s = <<>> THEN <<>>
    ELSE LET d == Dedupe(DropLast(s, 1)) IN
         IF s[Len(s)] \in Range(d) THEN d ELSE Append(d, s[Len(s)])

RECURSIVE DecodeRest(_)
DecodeRest(buf) ==
    IF buf = <<>> THEN <<>>
    ELSE <<IF Head(buf) = "bad" THEN "fffd" ELSE Head(buf)>> \o DecodeRest(Tail(buf))

\* new TextDecoder("utf-8").decode(buf): a leading byte-order mark ("bom") is
\* dropped and a byte that is not UTF-8 ("bad") becomes U+FFFD
Decode(buf) ==
    IF buf # <<>> /\ Head(buf) = "bom" THEN DecodeRest(Tail(buf)) ELSE DecodeRest(buf)

NoService == [ok |-> FALSE, status |-> 0, pdfType |-> FALSE, body |-> <<>>]

NoUploadResp == [status |-> 0, kind |-> "none", body |-> <<>>]

UResp(status, kind, body) == [status |-> status, kind |-> kind, body |-> body]

NoName == [segs |-> <<>>, parts |-> <<>>]

UIdle == [pc |-> "idle", ip |-> UNKNOWN, hasFile |-> FALSE, name |-> NoName, size |-> 0,
          bytes |-> <<>>, onlyArchive |-> FALSE,
          workdir |-> FALSE, archive |-> {}, resp1 |-> NoService, resp2 |-> NoService,
          buf |-> <<>>, missing |-> <<>>, k |-> 0, fetchedAny |-> FALSE,
          timer |-> FALSE, resp |-> NoUploadResp]

\* the network calls of one invocation: whether any was made, the members of
\* each archive sent to the service ({} for a forwarded upload) and its bytes, how often the
\* recovery phase was entered, the packages the mirror delivered and whether
\* the retry archive was built
UgIdle == [called |-> FALSE, uploads |-> <<>>, bodies |-> <<>>, recoveries |-> 0,
           fetched |-> {}, rebuilt |-> FALSE]

\* tar -cjf ARCHIVE -C workdir main.tex: an archive whose only member is the
\* main.tex copied from the received file
TarOfMain(bytes) == <<"tar.bz2", "main.tex">> \o bytes

UDone(uu, r) == [uu EXCEPT !.pc = "done", !.timer = FALSE, !.resp = r]

\* the outer catch (lines 256-262)
UploadInternalError(uu) == UDone(uu, UResp(500, "text", <<"Internal server error">>))

\* lines 237-249: cleanup, then the PDF or the log text with resp.status
UploadFinal(uu, files) ==
    [u |-> UDone(uu,
             IF uu.resp1.ok /\ (IsPdfHeader(uu.resp1.body) \/ uu.resp1.pdfType)
             THEN UResp(200, "pdf", uu.buf)
             ELSE UResp(uu.resp1.status, "text", Decode(uu.buf))),
     f |-> cleanup(files)]

\* lines 143-157: read the archive, post it to /data with a 120 s abort timer
UploadSend(uu, gg, files, members, fault) ==
    IF fault = "read"
    THEN [u |-> UploadInternalError(uu), g |-> gg, f |-> files]
    ELSE [u |-> [uu EXCEPT !.pc = "fetch1", !.timer = TRUE, !.archive = members],
          g |-> [gg EXCEPT !.called = TRUE, !.uploads = Append(@, members),
                           !.bodies = Append(@, IF uu.workdir THEN TarOfMain(uu.bytes)
                                                ELSE uu.bytes)],
          f |-> files]

\* lines 113-141: ?onlyArchive=1 returns the archive itself
UploadOnlyArchive(uu, gg, files, members, fault) ==
    IF fault = "read"
    THEN [u |-> UDone(uu, UResp(500, "text", <<"Failed to read archive">>)),
          g |-> gg, f |-> cleanup(files)]
    ELSE [u |-> UDone([uu EXCEPT !.archive = members], UResp(200, "archive", <<>>)),
          g |-> gg, f |-> files]

\* lines 76-157: after the upload was written to receivedPath
UploadAfterWrite(uu, gg, files, fault) ==
    LET files1 == files \cup {ReceivedPath(uu.name)}
        files2 == files1 \cup {WorkDir, MainPath, TarPath}
        built == [uu EXCEPT !.workdir = TRUE]
    IN  IF IsTexName(uu.name) /\ fault = "tar"
        THEN [u |-> UDone([uu EXCEPT !.workdir = TRUE],
                          UResp(500, "text", <<"Failed to create tarball">>)),
              g |-> gg, f |-> cleanup(files1 \cup {WorkDir})]
        ELSE IF IsTexName(uu.name)
        THEN IF uu.onlyArchive
             THEN UploadOnlyArchive(built, gg, files2, {"main.tex"}, fault)
             ELSE UploadSend(built, gg, files2, {"main.tex"}, fault)
        ELSE IF uu.onlyArchive
             THEN UploadOnlyArchive(uu, gg, files1, {}, fault)
             ELSE UploadSend(uu, gg, files1, {}, fault)

\* lines 25-74: POST up to `await pipeline(nodeReadable, out)`
UploadStart(in, fault) ==
    LET ip == ClientIp(in.hdr)
        ent == BumpEntry(rateMap, ip, now, RATE_LIMIT_WINDOW_MS)
        u0 == [UIdle EXCEPT !.ip = ip, !.name = in.name, !.bytes = in.bytes,
                            !.hasFile = in.multipart /\ in.formOk /\ in.hasFile,
                            !.size = in.size, !.onlyArchive = in.onlyArchive]
        end(r) == [u |-> UDone(u0, r), f |-> {}]
    IN  [rate |-> MapSet(rateMap, ip, ent),
         limited |-> UploadLimited(ent),
         next |->
           IF UploadLimited(ent) THEN end(UResp(429, "text", <<"Too many requests">>))
           ELSE IF ~in.multipart
           THEN end(UResp(400, "text", <<"Expected multipart/form-data">>))
           ELSE IF ~in.formOk THEN end(UResp(500, "text", <<"Internal server error">>))
           ELSE IF ~in.hasFile THEN end(UResp(400, "text", <<"Missing file field">>))
           ELSE IF ~ExtAllowed(in.name)
           THEN end(UResp(400, "text", <<"Unsupported file type">>))
           ELSE IF TooLarge(in.size)
           THEN end(UResp(413, "text", <<"Uploaded file is too large">>))
           ELSE IF fault = "mkdtemp"
           THEN end(UResp(500, "text", <<"Internal server error">>))
           ELSE [u |-> [u0 EXCEPT !.pc = "writing"], f |-> {UploadTmp}]]

\* A request arrives at /api/compile/upload and runs to its first await after
\* the form was parsed
UploadPOST(in, fault) ==
    /\ u.pc = "idle"
    /\ LET s == UploadStart(in, fault) IN
       /\ rateMap' = s.rate
       /\ u' = s.next.u
       /\ fsys' = s.next.f
       /\ uw' = ObserveWindow(uw, ClientIp(in.hdr), now, ~s.limited)
    /\ ug' = UgIdle
    /\ UNCHANGED <<now, env, extVars, compileVars, tailorVars>>

\* `await pipeline(nodeReadable, out)` settles (line 74)
UploadWritten(ok, fault) ==
    /\ u.pc = "writing"
    /\ LET n == IF ok THEN UploadAfterWrite(u, ug, fsys, fault)
                ELSE [u |-> UploadInternalError(u), g |-> ug, f |-> fsys]
       IN  u' = n.u /\ ug' = n.g /\ fsys' = n.f
    /\ UNCHANGED <<now, env, extVars, compileVars, tailorVars, rateMap, uw>>

\* the service's response headers arrive: fetch resolves, clearTimeout
\* (lines 153-157 and 210-214)
UploadHeaders(r) ==
    /\ u.pc \in {"fetch1", "fetch2"}
    /\ u' = IF u.pc = "fetch1"
            THEN [u EXCEPT !.pc = "body1", !.timer = FALSE, !.resp1 = r]
            ELSE [u EXCEPT !.pc = "body2", !.timer = FALSE, !.resp2 = r]
    /\ UNCHANGED <<now, env, extVars, compileVars, tailorVars, rateMap, ug, uw, fsys>>

\* a rejected fetch: the first goes to the outer catch, the retry's is swallowed
\* (lines 230-232)
UploadFetchRejected ==
    LET n == IF u.pc = "fetch1"
             THEN [u |-> UploadInternalError(u), f |-> fsys]
             ELSE UploadFinal(u, fsys)
    IN  u' = n.u /\ fsys' = n.f

\* the network fails
UploadFetchFails ==
    /\ u.pc \in {"fetch1", "fetch2"}
    /\ UploadFetchRejected
    /\ UNCHANGED <<now, env, extVars, compileVars, tailorVars, rateMap, ug, uw>>

\* the 120 s timer fires: controller.abort() rejects the pending fetch
UploadTimeout ==
    /\ u.pc \in {"fetch1", "fetch2"}
    /\ u.timer
    /\ UploadFetchRejected
    /\ UNCHANGED <<now, env, extVars, compileVars, tailorVars, rateMap, ug, uw>>

\* a recovery that retries whether or not a package arrived
UploadRetry_Always(uu, gg, files, fault) ==
    [u |-> [uu EXCEPT !.pc = "fetch2", !.timer = TRUE, !.archive = {"main.tex"}],
     g |-> [gg EXCEPT !.uploads = Append(@, {"main.tex"}), !.rebuilt = TRUE,
                      !.bodies = Append(@, TarOfMain(uu.bytes))],
     f |-> files \cup {TarPath2}]

\* lines 197-216: after the last package, rebuild the archive and post it again
UploadRetry(uu, gg, files, fault) ==
    IF ~uu.fetchedAny \/ fault = "tar"
    THEN UploadFinal(uu, files) @@ [g |-> gg]
    ELSE IF fault = "read"
    THEN UploadFinal(uu, files \cup {TarPath2}) @@ [g |-> [gg EXCEPT !.rebuilt = TRUE]]
    ELSE [u |-> [uu EXCEPT !.pc = "fetch2", !.timer = TRUE, !.archive = {"main.tex"}],
          g |-> [gg EXCEPT !.uploads = Append(@, {"main.tex"}), !.rebuilt = TRUE,
                      !.bodies = Append(@, TarOfMain(uu.bytes))],
          f |-> files \cup {TarPath2}]

\* lines 179-196: the next missing package, or the retry
CtanNext(uu, gg, files, fault) ==
    IF uu.k < Len(uu.missing)
    THEN [u |-> [uu EXCEPT !.pc = "ctanFetch", !.k = @ + 1], g |-> gg, f |-> files]
    ELSE UploadRetry(uu, gg, files, fault)

\* a recovery that does not ask whether the archive was built locally
UploadAfterBody_AnyArchive(uu, gg, files) ==
    LET missing == Dedupe(MissingNames(Decode(uu.buf))) IN
    IF ~uu.resp1.ok /\ missing # <<>>
    THEN [u |-> [uu EXCEPT !.pc = "ctanFetch", !.missing = missing, !.k = 1],
          g |-> [gg EXCEPT !.recoveries = @ + 1], f |-> files]
    ELSE UploadFinal(uu, files) @@ [g |-> gg]

\* lines 159-176: the first body was read
UploadAfterBody(uu, gg, files) ==
    LET missing == Dedupe(MissingNames(Decode(uu.buf))) IN
    IF ~uu.resp1.ok /\ uu.workdir /\ missing # <<>>
    THEN [u |-> [uu EXCEPT !.pc = "ctanFetch", !.missing = missing, !.k = 1],
          g |-> [gg EXCEPT !.recoveries = @ + 1], f |-> files]
    ELSE UploadFinal(uu, files) @@ [g |-> gg]

\* a retry that goes through the recovery phase again
UploadAfterBody2_RecoversAgain(uu, gg, files) ==
    IF uu.resp2.ok /\ (IsPdfHeader(uu.buf) \/ uu.resp2.pdfType)
    THEN [u |-> UDone(uu, UResp(200, "pdf", uu.buf)), g |-> gg, f |-> cleanup(files)]
    ELSE UploadAfterBody([uu EXCEPT !.resp1 = uu.resp2], gg, files)

\* lines 215-228: the retry's body was read
UploadAfterBody2(uu, gg, files) ==
    IF uu.resp2.ok /\ (IsPdfHeader(uu.buf) \/ uu.resp2.pdfType)
    THEN [u |-> UDone(uu, UResp(200, "pdf", uu.buf)), g |-> gg, f |-> cleanup(files)]
    ELSE UploadFinal(uu, files) @@ [g |-> gg]

\* `await resp.arrayBuffer()` settles (line 159, line 215)
UploadBody(ok) ==
    /\ u.pc \in {"body1", "body2"}
    /\ LET n == IF u.pc = "body1"
                THEN IF ok
                     THEN UploadAfterBody([u EXCEPT !.buf = u.resp1.body], ug, fsys)
                     ELSE [u |-> UploadInternalError(u), g |-> ug, f |-> fsys]
                ELSE IF ok
                     THEN UploadAfterBody2([u EXCEPT !.buf = u.resp2.body], ug, fsys)
                     ELSE UploadFinal(u, fsys) @@ [g |-> ug]
       IN  u' = n.u /\ ug' = n.g /\ fsys' = n.f
    /\ UNCHANGED <<now, env, extVars, compileVars, tailorVars, rateMap, uw>>

\* the package mirror answers the GET of line 184: "ok", "notOk" or "throws"
CtanAnswers(o, fault) ==
    /\ u.pc = "ctanFetch"
    /\ LET n == IF o = "ok"
                THEN [u |-> [u EXCEPT !.pc = "ctanBody"], g |-> ug, f |-> fsys]
                ELSE CtanNext(u, ug, fsys, fault)
       IN  u' = n.u /\ ug' = n.g /\ fsys' = n.f
    /\ UNCHANGED <<now, env, extVars, compileVars, tailorVars, rateMap, uw>>

\* `await r.arrayBuffer()` settles and the package is written (lines 186-191)
CtanBody(ok, fault) ==
    /\ u.pc = "ctanBody"
    /\ LET n == IF ok
                THEN CtanNext([u EXCEPT !.fetchedAny = TRUE],
                              [ug EXCEPT !.fetched = @ \cup {u.missing[u.k]}],
                              fsys \cup {StyPath(u.missing[u.k])}, fault)
                ELSE CtanNext(u, ug, fsys, fault)
       IN  u' = n.u /\ ug' = n.g /\ fsys' = n.f
    /\ UNCHANGED <<now, env, extVars, compileVars, tailorVars, rateMap, uw>>

\* the NextResponse is handed to the framework; the invocation is over
UploadReturn ==
    /\ u.pc = "done"
    /\ u' = UIdle
    /\ ug' = UgIdle
    /\ fsys' = {}
    /\ UNCHANGED <<now, env, extVars, compileVars, tailorVars, rateMap, uw>>

----------------------------------------------------------------------------
\* /api/compile (part_002): LaTeX text in a JSON body

PDFLATEX == <<"pdflatex">>
XELATEX == <<"xelatex">>
LUALATEX == <<"lualatex">>
TARBZ2 == <<"tar-bz2">>

\* an inference that looks at the font directives first
inferEngine_FontsFirst(tex) ==
    IF Range(tex) \cap {"fontspec", "\\setmainfont", "polyglossia", "xeCJK"} # {}
    THEN XELATEX
    ELSE IF "\\directlua" \in Range(tex) THEN LUALATEX
    ELSE PDFLATEX

\* lines 14-24; the tokens "fontspec", "polyglossia" and "xeCJK" stand for
\* the matches of the second regular expression's alternatives
inferEngine(tex) ==
    IF "\\directlua" \in Range(tex) THEN LUALATEX
    ELSE IF Range(tex) \cap {"fontspec", "\\setmainfont", "polyglossia", "xeCJK"} # {}
    THEN XELATEX
    ELSE PDFLATEX

\* line 35: engine || inferEngine(tex) || "xelatex"
InitialEngine(engine, tex) == IF Truthy(engine) THEN engine ELSE inferEngine(tex)

\* an engine list that keeps its duplicates
EngineOrder_KeepsDuplicates(initial) == <<initial, XELATEX, LUALATEX, PDFLATEX>>

\* lines 36-45: [initial, xelatex, lualatex, pdflatex].filter(first occurrence)
EngineOrder(initial) == Dedupe(<<initial, XELATEX, LUALATEX, PDFLATEX>>)

\* resp.ok && (isPdfType || isPdfHeader) (lines 68, 110, 178)
CompileSuccess(r) == r.ok /\ (r.pdfType \/ IsPdfHeader(r.body))

\* fs.mkdtempSync(path.join(os.tmpdir(), "latex-")), relative to os.tmpdir()
CompileTmp == <<"latex-XXXXXX">>
CompileTexPath == PathJoin(CompileTmp, <<"main.tex">>)
CompileTarPath == PathJoin(CompileTmp, <<"archive.tar.bz2">>)

NoCompileResp == [status |-> 0, kind |-> "none", body |-> <<>>, tried |-> <<>>]

CResp(status, kind, body) == [NoCompileResp EXCEPT !.status = status, !.kind = kind,
                                                   !.body = body]

CIdle == [pc |-> "idle", parsed |-> FALSE, tex |-> Undefined, engine |-> Undefined,
          engines |-> <<>>, idx |-> 0, method |-> "none", timer |-> FALSE,
          svc |-> NoService, tried |-> <<>>, resp |-> NoCompileResp]

\* the calls of one invocation to the compilation service, in order, and for
\* each call that was answered or failed its outcome
CgIdle == [calls |-> <<>>, outcomes |-> <<>>]

Thrown == [NoService EXCEPT !.status = -1]

CDone(cc, r) == [cc EXCEPT !.pc = "done", !.timer = FALSE, !.resp = r]

\* a 502 that leaves out the archive attempt
CompileFailed_WithoutArchiveEntry(cc, entry) ==
    CDone(cc, [NoCompileResp EXCEPT !.status = 502, !.kind = "json", !.tried = cc.tried])

\* lines 194-197 and 201-204: 502 with the attempts
CompileFailed(cc, entry) ==
    CDone([cc EXCEPT !.tried = Append(@, entry)],
          [NoCompileResp EXCEPT !.status = 502, !.kind = "json",
                                !.tried = Append(cc.tried, entry)])

\* a fetch of the service starts with its abort timer armed
CompileCall(cc, gg, k, method, files) ==
    [c |-> [cc EXCEPT !.pc = "fetch", !.idx = k, !.method = method, !.timer = TRUE],
     g |-> [gg EXCEPT !.calls = Append(@, [method |-> method,
                                           engine |-> IF method = "archive" THEN PDFLATEX
                                                      ELSE cc.engines[k]])],
     f |-> files]

\* lines 135-160: the archive fallback up to its fetch
CompileArchive(cc, gg, files, fault) ==
    IF fault = "tar"
    THEN [c |-> CompileFailed(cc, [engine |-> TARBZ2, status |-> 0]), g |-> gg,
          f |-> files \cup {CompileTmp, CompileTexPath}]
    ELSE CompileCall(cc, gg, cc.idx, "archive",
                     files \cup {CompileTmp, CompileTexPath, CompileTarPath})

\* the entry pushed on `tried` for the attempt in progress; status 0 stands
\* for an entry without status (lines 81, 84, 123, 126, 192, 200)
AttemptEntry(cc, status) ==
    [engine |-> IF cc.method = "archive" THEN TARBZ2 ELSE cc.engines[cc.idx],
     status |-> status]

\* an engine loop that goes to the next engine without the GET variant
CompileNext_SkipsGet(cc, gg, files, entry, fault) ==
    LET c1 == [cc EXCEPT !.tried = Append(@, entry), !.timer = FALSE] IN
    IF cc.method = "archive"
    THEN [c |-> CompileFailed(cc, entry), g |-> gg, f |-> files]
    ELSE IF cc.idx < Len(cc.engines)
    THEN CompileCall(c1, gg, cc.idx + 1, "POST", files)
    ELSE CompileArchive(c1, gg, files, fault)

\* what follows a failed attempt: the GET variant after a POST, the next
\* engine or the archive fallback after a GET, the 502 after the archive
CompileNext(cc, gg, files, entry, fault) ==
    LET c1 == [cc EXCEPT !.tried = Append(@, entry), !.timer = FALSE] IN
    IF cc.method = "POST" THEN CompileCall(c1, gg, cc.idx, "GET", files)
    ELSE IF cc.method = "GET"
    THEN IF cc.idx < Len(cc.engines)
         THEN CompileCall(c1, gg, cc.idx + 1, "POST", files)
         ELSE CompileArchive(c1, gg, files, fault)
    ELSE [c |-> CompileFailed(cc, entry), g |-> gg, f |-> files]

\* the catch blocks of lines 83-85, 125-127 and 198-205
CompileThrew(cc, gg, files, fault) ==
    CompileNext(cc, [gg EXCEPT !.outcomes = Append(@, Thrown)], files,
                AttemptEntry(cc, 0), fault)

\* lines 61-82, 103-124 and 163-197: the body was read
CompileRead(cc, gg, files, fault) ==
    LET g1 == [gg EXCEPT !.outcomes = Append(@, cc.svc)]
        files1 == IF cc.method = "archive"
                  THEN files \ {CompileTarPath, CompileTexPath, CompileTmp}
                  ELSE files
    IN  IF CompileSuccess(cc.svc)
        THEN [c |-> CDone(cc, CResp(200, "pdf", cc.svc.body)), g |-> g1, f |-> files1]
        ELSE CompileNext(cc, g1, files1, AttemptEntry(cc, cc.svc.status), fault)

\* lines 26-50: POST up to the first fetch
CompileStart(in) ==
    LET c0 == [CIdle EXCEPT !.parsed = in.json, !.tex = in.tex, !.engine = in.engine] IN
    IF ~in.json
    THEN [c |-> CDone(c0, CResp(500, "text", <<"Internal error">>)), g |-> CgIdle,
          f |-> fsys]
    ELSE IF ~Truthy(in.tex) \/ ~HasDocumentclass(in.tex)
    THEN [c |-> CDone(c0, CResp(400, "text", <<"Invalid or missing LaTeX document">>)),
          g |-> CgIdle, f |-> fsys]
    ELSE CompileCall([c0 EXCEPT !.engines = EngineOrder(InitialEngine(in.engine, in.tex))],
                     CgIdle, 1, "POST", fsys)

\* A request arrives at /api/compile and runs to its first fetch
CompilePOST(in) ==
    /\ c.pc = "idle"
    /\ LET n == CompileStart(in) IN c' = n.c /\ cg' = n.g /\ fsys' = n.f
    /\ UNCHANGED <<now, env, extVars, tailorVars, rateMap, u, ug, uw>>

\* the service's response headers arrive: fetch resolves, clearTimeout
\* (lines 50-59, 94-101, 157-161)
CompileHeaders(r) ==
    /\ c.pc = "fetch"
    /\ c' = [c EXCEPT !.pc = "body", !.timer = FALSE, !.svc = r]
    /\ UNCHANGED <<now, env, extVars, tailorVars, uploadVars, cg>>

\* the network fails
CompileFetchFails(fault) ==
    /\ c.pc = "fetch"
    /\ LET n == CompileThrew(c, cg, fsys, fault) IN c' = n.c /\ cg' = n.g /\ fsys' = n.f
    /\ UNCHANGED <<now, env, extVars, tailorVars, rateMap, u, ug, uw>>

\* the 40 s (120 s for the archive) timer fires: controller.abort()
CompileTimeout(fault) ==
    /\ c.pc = "fetch"
    /\ c.timer
    /\ LET n == CompileThrew(c, cg, fsys, fault) IN c' = n.c /\ cg' = n.g /\ fsys' = n.f
    /\ UNCHANGED <<now, env, extVars, tailorVars, rateMap, u, ug, uw>>

\* `await resp.arrayBuffer()` settles (lines 62, 104, 163)
CompileBody(ok, fault) ==
    /\ c.pc = "body"
    /\ LET n == IF ok THEN CompileRead(c, cg, fsys, fault)
                ELSE CompileThrew(c, cg, fsys, fault)
       IN  c' = n.c /\ cg' = n.g /\ fsys' = n.f
    /\ UNCHANGED <<now, env, extVars, tailorVars, rateMap, u, ug, uw>>

\* the NextResponse is handed to the framework; the invocation is over
CompileReturn ==
    /\ c.pc = "done"
    /\ c' = CIdle
    /\ cg' = CgIdle
    /\ fsys' = {}
    /\ UNCHANGED <<now, env, extVars, tailorVars, rateMap, u, ug, uw>>

----------------------------------------------------------------------------
\* Requests handled simultaneously: between two awaits a handler runs alone
\* on the event loop, so each step below is the code from one await to the next

\* handler invocations that may be in progress at once
Handlers == {1, 2, 3}

HandlerIdle == [pc |-> "idle", ip |-> UNKNOWN]

\* route: the endpoint the handlers serve
HsIdle == [route |-> "tailor", run |-> [h \in Handlers |-> HandlerIdle]]

\* a limiter that tests the counter before it counts the request
ConcLimit_ChecksBeforeCount(map, ip, n, window, max) ==
    LET ent0 == IF ip \in DOMAIN map THEN map[ip]
                ELSE [count |-> 0, resetAt |-> n + window]
        ent1 == IF n > ent0.resetAt THEN [count |-> 0, resetAt |-> n + window]
                ELSE ent0
        ent == IF ent1.count >= max THEN ent1 ELSE [ent1 EXCEPT !.count = @ + 1]
    IN  [map |-> MapSet(map, ip, ent), ent |-> ent, limited |-> ent1.count >= max]

\* part_001:23-33 and part_003:29-39: get, reset, increment, set and compare,
\* with no await in between
ConcLimit(map, ip, n, window, max) ==
    LET ent == BumpEntry(map, ip, n, window) IN
    [map |-> MapSet(map, ip, ent), ent |-> ent, limited |-> ent.count > max]

\* the handler's position after the limiter
AfterLimit(h, ip, l) ==
    [hs EXCEPT !.run[h] = [pc |-> IF l.limited THEN "rejected" ELSE "admitted",
                           ip |-> ip]]

\* POST is entered: /api/tailor awaits req.json() (part_001:20) before its
\* limiter, /api/compile/upload runs its limiter at once (part_003:28-39)
ConcArrive(h, hdr) ==
    /\ hs.run[h].pc = "idle"
    /\ IF hs.route = "tailor"
       THEN /\ hs' = [hs EXCEPT !.run[h] = [HandlerIdle EXCEPT !.pc = "json",
                                                               !.ip = ClientIp(hdr)]]
            /\ UNCHANGED <<rateMap, uw>>
       ELSE LET ip == ClientIp(hdr)
                l == ConcLimit(rateMap, ip, now, RATE_LIMIT_WINDOW_MS, RATE_LIMIT_MAX)
            IN  /\ rateMap' = l.map
                /\ uw' = ObserveWindow(uw, ip, now, ~l.limited)
                /\ hs' = AfterLimit(h, ip, l)
    /\ UNCHANGED <<now, env, pageVars, tailorVars, compileVars, u, ug, fsys,
                   up, first, history, sv, saved, fr>>

\* req.json() settles (part_001:20): a rejection goes to the outer catch, else
\* the limiter runs (lines 22-33)
ConcParsed(h, ok) ==
    /\ hs.run[h].pc = "json"
    /\ IF ok
       THEN LET ip == hs.run[h].ip
                l == ConcLimit(tailorRate, ip, now, TAILOR_RATE_WINDOW_MS, TAILOR_RATE_MAX)
            IN  /\ tailorRate' = l.map
                /\ tw' = ObserveWindow(tw, ip, now, ~l.limited)
                /\ hs' = AfterLimit(h, ip, l)
       ELSE /\ hs' = [hs EXCEPT !.run[h].pc = "failed"]
            /\ UNCHANGED <<tailorRate, tw>>
    /\ UNCHANGED <<now, env, pageVars, t, tg, uploadVars, compileVars,
                   up, first, history, sv, saved, fr>>

\* the rest of the handler, which does not touch the map, and its return
ConcReturn(h) ==
    /\ hs.run[h].pc \in {"admitted", "rejected", "failed"}
    /\ hs' = [hs EXCEPT !.run[h] = HandlerIdle]
    /\ UNCHANGED <<now, env, pageVars, tailorVars, uploadVars, compileVars,
                   up, first, history, sv, saved, fr>>

----------------------------------------------------------------------------
\* A generative API with a fixed behaviour: every SDK call gets the answer
\* up.sdk and every raw-HTTP call the answer up.raw

NoUpstream == [sdk |-> "none", raw |-> "none"]

\* the body and client of the request in progress
TheRequest ==
    [parsed |-> t.parsed, ip |-> t.ip, jd |-> t.jd, apiKey |-> t.apiKey,
     baseTex |-> t.baseTex, model |-> t.model]

\* TailorReturn, with the observer noting the first answer to each request
TailorReturnNoted ==
    /\ t.pc = "done"
    /\ t' = TIdle
    /\ tg' = TgIdle
    /\ first' = IF TheRequest \in DOMAIN first THEN first
                ELSE MapSet(first, TheRequest, t.resp)
    /\ UNCHANGED <<now, env, pageVars, compileVars, tailorRate, tw, uploadVars,
                   hs, up, history, sv, saved, fr>>

----------------------------------------------------------------------------
\* Browser extension (src/extension/background.js)

\* saveToHistory invocations that may be in progress at once
Savers == {1, 2}

\* results saved in one behaviour of SpecExt
MaxSaves == 6

HistoryLimit == 5

\* history.unshift(historyItem); if (history.length > 5) history = history.slice(0, 5)
Unshift(hist, item) ==
    LET h1 == <<item>> \o hist IN
    IF Len(h1) > HistoryLimit THEN SubSeq(h1, 1, HistoryLimit) ELSE h1

SaverIdle == [pc |-> "idle", item |-> 0, local |-> <<>>]

\* next: the number of the next tailoring result; run: the invocations
SvIdle == [next |-> 1, run |-> [h \in Savers |-> SaverIdle]]

\* saveToHistory(tex, jd) is called with the next result and awaits
\* getStorage(['history']) (line 371)
SaveToHistory(h) ==
    /\ sv.run[h].pc = "idle"
    /\ fr.pc = "idle"
    /\ sv.next <= MaxSaves
    /\ sv' = [sv EXCEPT !.next = @ + 1,
                        !.run[h] = [pc |-> "get", item |-> sv.next, local |-> <<>>]]
    /\ UNCHANGED <<now, env, pageVars, tailorVars, uploadVars, compileVars,
                   hs, up, first, history, saved, fr>>

\* getStorage settles: lines 372-391 run up to `await setStorage({ history })`;
\* a rejection is caught at line 392
SaveGot(h, ok) ==
    /\ sv.run[h].pc = "get"
    /\ sv' = IF ok
             THEN [sv EXCEPT !.run[h].pc = "set",
                             !.run[h].local = Unshift(history, sv.run[h].item)]
             ELSE [sv EXCEPT !.run[h] = SaverIdle]
    /\ UNCHANGED <<now, env, pageVars, tailorVars, uploadVars, compileVars,
                   hs, up, first, history, saved, fr>>

\* setStorage settles: chrome.storage.local holds the invocation's list
SaveSet(h, ok) ==
    /\ sv.run[h].pc = "set"
    /\ sv' = [sv EXCEPT !.run[h] = SaverIdle]
    /\ history' = IF ok THEN sv.run[h].local ELSE history
    /\ saved' = IF ok THEN Append(saved, sv.run[h].item) ELSE saved
    /\ UNCHANGED <<now, env, pageVars, tailorVars, uploadVars, compileVars, hs, up, first, fr>>

\* a retry rule for rate limiting only
Retryable_OnlyRateLimit(status) == status = 429

\* line 175: response.status === 429 || response.status >= 500
Retryable(status) == status = 429 \/ status >= 500

NoResult == [kind |-> "none", status |-> 0, code |-> "none"]

\* calls: the fetch calls made; seen: the status of each settled call (0 for a
\* rejected fetch); waits: the delays waited, in ms
FrIdle == [pc |-> "idle", maxRetries |-> 0, i |-> 0, calls |-> 0, seen |-> <<>>,
           waits |-> <<>>, result |-> NoResult]

\* new ExtensionError(message, code)
ExtensionError(code) == [kind |-> "ExtensionError", status |-> 0, code |-> code]

\* lines 176-179: what the last iteration throws for a 429 or 5xx answer
MaxRetriesExceeded(status) ==
    ExtensionError(IF status = 429 THEN "RATE_LIMIT" ELSE "API_ERROR")

\* lines 189-192: the catch block of the last iteration, which receives the
\* rejection of fetch as well as the error thrown at line 178
CaughtAtLast(error) == ExtensionError("NETWORK_ERROR")

\* lines 169-172 and 201: the loop is entered with i = 0, or not at all
FetchWithRetry(retries) ==
    /\ fr.pc = "idle"
    /\ \A h \in Savers : sv.run[h].pc = "idle"
    /\ fr' = IF 0 < retries
             THEN [FrIdle EXCEPT !.pc = "fetch", !.maxRetries = retries, !.calls = 1]
             ELSE [FrIdle EXCEPT !.pc = "rejected", !.maxRetries = retries,
                                 !.result = ExtensionError("NETWORK_ERROR")]
    /\ UNCHANGED <<now, env, pageVars, tailorVars, uploadVars, compileVars,
                   hs, up, first, history, sv, saved>>

\* `await fetch(url, options)` settles (lines 172-198); status 0 stands for a
\* rejected fetch
FetchSettles(status) ==
    /\ fr.pc = "fetch"
    /\ LET f1 == [fr EXCEPT !.seen = Append(@, status)] IN
       fr' = IF status # 0 /\ ~Retryable(status)
             THEN [f1 EXCEPT !.pc = "returned",
                             !.result = [kind |-> "response", status |-> status,
                                         code |-> "none"]]
             ELSE IF fr.i = fr.maxRetries - 1
             THEN [f1 EXCEPT !.pc = "rejected",
                             !.result = CaughtAtLast(IF status = 0 THEN NoResult
                                                     ELSE MaxRetriesExceeded(status))]
             ELSE [f1 EXCEPT !.pc = "backoff",
                             !.waits = Append(@, BackoffDelay(fr.i))]
    /\ UNCHANGED <<now, env, pageVars, tailorVars, uploadVars, compileVars,
                   hs, up, first, history, sv, saved>>

\* the timer of line 184 or 197 fires; the loop goes on with i + 1
FetchBackoffElapsed ==
    /\ fr.pc = "backoff"
    /\ fr' = [fr EXCEPT !.pc = "fetch", !.i = @ + 1, !.calls = @ + 1]
    /\ UNCHANGED <<now, env, pageVars, tailorVars, uploadVars, compileVars,
                   hs, up, first, history, sv, saved>>

\* the caller has the response or the rejection
FetchSettled ==
    /\ fr.pc \in {"returned", "rejected"}
    /\ fr' = FrIdle
    /\ UNCHANGED <<now, env, pageVars, tailorVars, uploadVars, compileVars,
                   hs, up, first, history, sv, saved>>

----------------------------------------------------------------------------
\* Browser extension popup: the RequestQueue of network.js and
\* handleGenerateClick of popup.js

\* requests handed to the queue in one run
MaxEnqueued == 3

\* constructor (lines 15-17), navigator.onLine, and what an observer saw:
\* the items whose request function was called, in that order, and for each
\* item that was dealt with whether onSuccess and onError were called
NoItem == [id |-> 0, fn |-> "none", onSuccess |-> "none", onError |-> "none"]

RqIdle == [queue |-> <<>>, isProcessing |-> FALSE, onLine |-> TRUE,
           pc |-> "idle", item |-> NoItem, next |-> 1,
           started |-> <<>>, done |-> <<>>]

\* lines 56-61: the loop head; the next item's request function is called,
\* or the loop ends and line 78 resets the flag
LoopHead(r) ==
    IF Len(r.queue) > 0 /\ r.onLine
    THEN [r EXCEPT !.queue = Tail(@), !.item = Head(r.queue), !.pc = "request",
                   !.started = Append(@, [id |-> Head(r.queue).id,
                                          fn |-> Head(r.queue).fn,
                                          onLine |-> r.onLine])]
    ELSE [r EXCEPT !.isProcessing = FALSE, !.pc = "idle", !.item = NoItem]

\* lines 49-61: processQueue() up to its first await
processQueue(r) ==
    IF r.isProcessing \/ Len(r.queue) = 0 THEN r
    ELSE LoopHead([r EXCEPT !.isProcessing = TRUE])

\* lines 62-75: the request function settled; the callbacks run, and an
\* exception of onSuccess is caught by the catch of line 66, while an
\* exception of onError leaves processQueue
Settled(r, ok) ==
    LET it == r.item
        success == ok /\ it.onSuccess # "none"
        caught == ~ok \/ (success /\ it.onSuccess = "throws")
        error == caught /\ it.onError # "none"
        escaped == error /\ it.onError = "throws"
        r1 == [r EXCEPT !.done = Append(@, [id |-> it.id, onSuccess |-> success,
                                            onError |-> error,
                                            both |-> it.onSuccess # "none"
                                                     /\ it.onError # "none"]),
                        !.item = NoItem]
    IN  IF escaped THEN [r1 EXCEPT !.pc = "idle"] ELSE [r1 EXCEPT !.pc = "delay"]

\* enqueue(requestFn, onSuccess, onError), lines 30-44
Enqueue(fn, onSuccess, onError) ==
    /\ rq.next <= MaxEnqueued
    /\ LET item == [id |-> rq.next, fn |-> fn, onSuccess |-> onSuccess,
                    onError |-> onError]
           r1 == [rq EXCEPT !.queue = Append(@, item), !.next = @ + 1]
       IN  rq' = IF r1.onLine /\ ~r1.isProcessing THEN processQueue(r1) ELSE r1
    /\ UNCHANGED <<now, env, tailorVars, uploadVars, compileVars,
                   hs, up, first, history, sv, saved, fr, pp, store, mw>>

\* `await item.requestFn()` settles
RequestSettles(ok) ==
    /\ rq.pc = "request"
    /\ rq' = Settled(rq, ok)
    /\ UNCHANGED <<now, env, tailorVars, uploadVars, compileVars,
                   hs, up, first, history, sv, saved, fr, pp, store, mw>>

\* the 500 ms timer of line 75 fires
QueueDelayElapsed ==
    /\ rq.pc = "delay"
    /\ rq' = LoopHead(rq)
    /\ UNCHANGED <<now, env, tailorVars, uploadVars, compileVars,
                   hs, up, first, history, sv, saved, fr, pp, store, mw>>

\* the browser goes online: onOnline(), lines 84-92
onOnline ==
    /\ ~rq.onLine
    /\ rq' = processQueue([rq EXCEPT !.onLine = TRUE])
    /\ UNCHANGED <<now, env, tailorVars, uploadVars, compileVars,
                   hs, up, first, history, sv, saved, fr, pp, store, mw>>

\* the browser goes offline: onOffline(), lines 97-102
onOffline ==
    /\ rq.onLine
    /\ rq' = [rq EXCEPT !.onLine = FALSE]
    /\ UNCHANGED <<now, env, tailorVars, uploadVars, compileVars,
                   hs, up, first, history, sv, saved, fr, pp, store, mw>>

\* clicks on the Generate button in one run
MaxClicks == 2

\* handleGenerateClick: where it waits, the message it showed last, the
\* clicks so far, and whether a click failed at the network
PpIdle == [pc |-> "idle", shown |-> "none", clicks |-> 0, networkFailed |-> FALSE]

\* popup.js 274-302: the click handler up to the TAILOR_CV message, for a
\* valid job description
handleGenerateClick ==
    /\ pp.pc = "idle"
    /\ pp.clicks < MaxClicks
    /\ pp' = IF ~rq.onLine
             THEN [pp EXCEPT !.clicks = @ + 1, !.shown = "OFFLINE_ERROR",
                             !.networkFailed = TRUE]
             ELSE [pp EXCEPT !.clicks = @ + 1, !.pc = "tailor", !.shown = "loading"]
    /\ UNCHANGED <<now, env, tailorVars, uploadVars, compileVars,
                   hs, up, first, history, sv, saved, fr, rq, store, mw>>

\* popup.js 299-316 and 340-354: the answer to TAILOR_CV. The background
\* answers with the tailored text, with an error (a network failure among
\* them), or the message channel fails
TailorMessageAnswered(answer) ==
    /\ pp.pc = "tailor"
    /\ pp' = CASE answer = "tex" -> [pp EXCEPT !.pc = "compile"]
               [] answer = "NETWORK_ERROR" ->
                    [pp EXCEPT !.pc = "idle", !.shown = "tailor error",
                               !.networkFailed = TRUE]
               [] answer = "API_ERROR" ->
                    [pp EXCEPT !.pc = "idle", !.shown = "tailor error"]
               [] OTHER ->
                    [pp EXCEPT !.pc = "idle", !.networkFailed = TRUE,
                               !.shown = IF ~rq.onLine THEN "NETWORK_ERROR"
                                         ELSE "Request Failed"]
    /\ UNCHANGED <<now, env, tailorVars, uploadVars, compileVars,
                   hs, up, first, history, sv, saved, fr, rq, store, mw>>

\* popup.js 318-354: the answer to COMPILE_PDF
CompileMessageAnswered(answer) ==
    /\ pp.pc = "compile"
    /\ pp' = CASE answer = "pdf" -> [pp EXCEPT !.pc = "idle", !.shown = "success"]
               [] answer = "NETWORK_ERROR" ->
                    [pp EXCEPT !.pc = "idle", !.shown = "Compilation Error",
                               !.networkFailed = TRUE]
               [] answer = "API_ERROR" ->
                    [pp EXCEPT !.pc = "idle", !.shown = "Compilation Error"]
               [] OTHER ->
                    [pp EXCEPT !.pc = "idle", !.networkFailed = TRUE,
                               !.shown = IF ~rq.onLine THEN "NETWORK_ERROR"
                                         ELSE "Request Failed"]
    /\ UNCHANGED <<now, env, tailorVars, uploadVars, compileVars,
                   hs, up, first, history, sv, saved, fr, rq, store, mw>>

----------------------------------------------------------------------------
\* Browser extension settings: setStorage of background.js and the settings
\* page (settings.js). An API key is a string of tokens: X for a character
\* of [A-Za-z0-9], "-", "_", WS, and "!" for any other character. A URL is
\* given by whether it parses, its scheme and its host as typed.

\* background.js 50-67: validateApiKeyFormat
validateApiKeyFormat(apiKey) ==
    /\ Truthy(apiKey)
    /\ LET trimmed == Trim(apiKey) IN
       /\ ~(Len(trimmed) < 20 \/ Len(trimmed) > 100)
       /\ \A k \in 1..Len(trimmed) : trimmed[k] \in {X, "-", "_"}

AbsentUrl == [given |-> FALSE, parses |-> FALSE, scheme |-> "", host |-> ""]

Url(scheme, host) == [given |-> TRUE, parses |-> TRUE, scheme |-> scheme, host |-> host]

\* a string that `new URL` rejects
NotAUrl == [given |-> TRUE, parses |-> FALSE, scheme |-> "", host |-> "not-a-url"]

\* the empty string
EmptyUrl == [given |-> TRUE, parses |-> FALSE, scheme |-> "", host |-> ""]

\* new URL(url).hostname: the host in lower case
hostname(url) == IF url.host = "LOCALHOST" THEN "localhost" ELSE url.host

\* background.js 74-96: validateBackendUrlFormat
validateBackendUrlFormat(url) ==
    /\ url.given /\ url # EmptyUrl
    /\ url.parses
    /\ ~(url.scheme # "https" /\ hostname(url) # "localhost"
           /\ hostname(url) # "127.0.0.1")
    /\ hostname(url) # ""

\* settings.js 195-202: isValidUrl
isValidUrl(url) == url.parses /\ url.scheme \in {"http", "https"}

\* settings.js 3
DEFAULT_BACKEND_URL == Url("http", "localhost")

\* chrome.storage.local (the two settings), and how the last write ended
StoreEmpty == [apiKey |-> Undefined, backendUrl |-> AbsentUrl,
               by |-> "none", result |-> "none"]

\* chrome.storage.local.set(data): the keys of data replace the stored ones
StorageSet(st, data) ==
    [st EXCEPT !.apiKey = IF data.apiKey # Undefined THEN data.apiKey ELSE @,
               !.backendUrl = IF data.backendUrl.given THEN data.backendUrl ELSE @]

\* background.js 135-156: setStorage(data); ok tells whether
\* chrome.storage.local.set resolved
setStorage(data, ok) ==
    /\ store' =
         IF data.apiKey # Undefined /\ ~validateApiKeyFormat(data.apiKey)
         THEN [store EXCEPT !.by = "setStorage", !.result = "VALIDATION_ERROR"]
         ELSE IF data.backendUrl.given /\ ~validateBackendUrlFormat(data.backendUrl)
         THEN [store EXCEPT !.by = "setStorage", !.result = "VALIDATION_ERROR"]
         ELSE IF ~ok
         THEN [store EXCEPT !.by = "setStorage", !.result = "STORAGE_ERROR"]
         ELSE [StorageSet(store, data) EXCEPT !.by = "setStorage", !.result = "stored"]
    /\ UNCHANGED <<now, env, tailorVars, uploadVars, compileVars,
                   hs, up, first, history, sv, saved, fr, rq, pp, mw>>

\* settings.js 116-160: handleSave with the two inputs as typed
handleSave(urlInput, keyInput, ok) ==
    /\ urlInput.given
    /\ LET apiKey == Trim(keyInput)
           settings == [backendUrl |-> urlInput,
                        apiKey |-> IF apiKey # <<>> THEN apiKey ELSE Undefined]
       IN  store' =
             IF urlInput = EmptyUrl
             THEN [store EXCEPT !.by = "handleSave", !.result = "enter a backend URL"]
             ELSE IF ~isValidUrl(urlInput)
             THEN [store EXCEPT !.by = "handleSave", !.result = "enter a valid URL"]
             ELSE IF ~ok
             THEN [store EXCEPT !.by = "handleSave", !.result = "Failed to save"]
             ELSE [StorageSet(store, settings) EXCEPT !.by = "handleSave",
                                                      !.result = "stored"]
    /\ UNCHANGED <<now, env, tailorVars, uploadVars, compileVars,
                   hs, up, first, history, sv, saved, fr, rq, pp, mw>>

\* settings.js 165-191: handleReset
handleReset(ok) ==
    /\ store' =
         IF ~ok
         THEN [store EXCEPT !.by = "handleReset", !.result = "Failed to reset"]
         ELSE [store EXCEPT !.backendUrl = DEFAULT_BACKEND_URL, !.apiKey = <<>>,
                            !.by = "handleReset", !.result = "stored"]
    /\ UNCHANGED <<now, env, tailorVars, uploadVars, compileVars,
                   hs, up, first, history, sv, saved, fr, rq, pp, mw>>

----------------------------------------------------------------------------
\* Page protection: src/middleware.ts and the OAuth callback that issues the
\* session cookie (part_000). A cookie is its payload in base64 and a
\* signature; the Basic credentials are the fields that split(":") gives.

\* 1000 * 60 * 60 * 24 * 7 (part_000:52)
SevenDays == 604800000

\* the clock advances in steps of half that time
HalfWeek == SevenDays \div 2

\* steps of the clock in one run
MaxHalfWeeks == 3

NoCookie == [present |-> FALSE, b64 |-> <<>>, sig |-> <<>>]

\* Buffer.from(JSON.stringify(payload)).toString('base64')
Base64(json) == <<"base64", json>>

\* Buffer.from(b64, "base64").toString("utf8")
FromBase64(b64) == b64[2]

\* createHmac('sha256', secret).update(b64).digest('hex'), and the same value
\* computed with crypto.subtle (middleware.ts:49-57)
HmacHex(secret, b64) == <<"hmac", secret, b64>>

\* JSON.stringify of a payload object with the given exp (0: no exp field)
PayloadJson(exp) == [json |-> "object", exp |-> exp]

\* JSON texts that are not an object, and a text JSON.parse rejects
NullJson == [json |-> "null", exp |-> 0]
BadJson2 == [json |-> "malformed", exp |-> 0]

\* middleware.ts 13-73: verifySessionCookie at time `at`
verifySessionCookie(cookie, secret, at) ==
    /\ cookie.present /\ cookie.b64 # <<>>
    /\ secret # "" => (cookie.sig # <<>> /\ HmacHex(secret, cookie.b64) = cookie.sig)
    /\ LET payload == FromBase64(cookie.b64) IN
       /\ payload.json = "object"
       /\ ~(payload.exp # 0 /\ at > payload.exp)

\* part_000 47-62: the cookie value the OAuth callback sets at time `at`
SessionCookie(secret, at) ==
    LET b64 == Base64(PayloadJson(at + SevenDays)) IN
    [present |-> TRUE, b64 |-> b64,
     sig |-> IF secret # "" THEN HmacHex(secret, b64) ELSE <<>>]

\* middleware.ts 79-84
PassThroughPath(pathname) == pathname \in {"/api", "/_next", "/static", "/favicon.ico"}

\* middleware.ts 94-102: `const [u, p] = decoded.split(":")` against USER, PASS
BasicMatches(fields, user, pass) ==
    /\ Len(fields) >= 2
    /\ fields[1] = user /\ fields[2] = pass

\* the deployment (lines 5-8), the cookie the callback issued last, and the
\* last page request with the middleware's answer
MwIdle == [configured |-> FALSE, secret |-> "", user |-> "", pass |-> "",
           issued |-> NoCookie,
           req |-> [pathname |-> "none", cookie |-> NoCookie, basic |-> FALSE,
                    fields |-> <<>>, at |-> 0],
           result |-> "none"]

\* the server starts with SESSION_SECRET, BASIC_AUTH_USER and BASIC_AUTH_PASS
Configure(secret, user, pass) ==
    /\ ~mw.configured
    /\ mw' = [mw EXCEPT !.configured = TRUE, !.secret = secret,
                        !.user = user, !.pass = pass]
    /\ UNCHANGED <<now, env, tailorVars, uploadVars, compileVars,
                   hs, up, first, history, sv, saved, fr, rq, pp, store>>

\* part_000 6-68: a completed Google sign-in gets the session cookie (one
\* sign-in in a run)
OAuthCallback ==
    /\ mw.configured /\ ~mw.issued.present
    /\ mw' = [mw EXCEPT !.issued = SessionCookie(mw.secret, now)]
    /\ UNCHANGED <<now, env, tailorVars, uploadVars, compileVars,
                   hs, up, first, history, sv, saved, fr, rq, pp, store>>

\* middleware.ts 75-112
middleware(pathname, cookie, basic, fields) ==
    /\ mw.configured
    /\ mw' = [mw EXCEPT
         !.req = [pathname |-> pathname, cookie |-> cookie, basic |-> basic,
                  fields |-> fields, at |-> now],
         !.result =
            IF PassThroughPath(pathname) THEN "next"
            ELSE IF cookie.present /\ verifySessionCookie(cookie, mw.secret, now)
            THEN "next"
            ELSE IF mw.user # "" /\ mw.pass # ""
            THEN IF basic /\ BasicMatches(fields, mw.user, mw.pass)
                 THEN "next" ELSE "401"
            ELSE "redirect"]
    /\ UNCHANGED <<now, env, tailorVars, uploadVars, compileVars,
                   hs, up, first, history, sv, saved, fr, rq, pp, store>>

\* half a week passes
HalfWeekPasses ==
    /\ now < MaxHalfWeeks * HalfWeek
    /\ now' = now + HalfWeek
    /\ UNCHANGED <<env, extVars, compileVars, tailorVars, uploadVars>>


----------------------------------------------------------------------------
\* Environments and inputs

\* public/base.tex, the bundled default template (a LaTeX resume)
DefaultTemplate == <<DOCCLASS, X, X>>

Jd15 == Rep(X, 15)
Jd16 == Rep(X, 16)

\* answers of the generative model
ModelOutputs == {
    <<>>,
    <<WS>>,
    <<X, X>>,
    <<DOCCLASS, X, WS>>,
    <<WS, FENCE, TAG, WS, DOCCLASS, X, WS, FENCE, WS>>,
    <<FENCE, X, FENCE>> }

EnvChoices == {
    [GEMINI_API_KEY |-> Undefined, GEMINI_MODEL |-> Undefined, baseFile |-> DefaultTemplate],
    [GEMINI_API_KEY |-> <<"k0">>, GEMINI_MODEL |-> <<"gemini", "1.5", "flash">>,
     baseFile |-> DefaultTemplate],
    [GEMINI_API_KEY |-> <<"k0">>, GEMINI_MODEL |-> Undefined, baseFile |-> Undefined] }

BadJson == [json |-> FALSE, hdr |-> Undefined, jd |-> Undefined, apiKey |-> Undefined,
            baseTex |-> Undefined, model |-> Undefined]

Hdr1 == <<WS, "a", WS, ",", "b">>

Req(hdr, jd, apiKey, baseTex, model) ==
    [json |-> TRUE, hdr |-> hdr, jd |-> jd, apiKey |-> apiKey, baseTex |-> baseTex,
     model |-> model]

\* requests that fail validation, whatever else they carry
InvalidRequests(hdr) ==
    {BadJson} \cup
    {Req(hdr, jd, <<"k1">>, <<WS, DOCCLASS, X>>, Undefined) :
        jd \in {Undefined, <<WS>> \o Jd15 \o <<WS, WS>>}}

\* requests with a valid job description
ValidRequests(hdr) ==
    { Req(hdr, <<WS>> \o Jd16, Undefined, Undefined, Undefined),
      Req(hdr, <<WS>> \o Jd16, <<"k1">>, Undefined, <<"gemini", "pro">>),
      Req(hdr, Jd16, <<"k1">>, <<X, X>>, <<"text", "embedding", "004">>),
      Req(hdr, Jd16, <<"k1">>, <<X, X>>, <<"my", "model">>),
      Req(hdr, Jd16, <<"k1">>, <<WS, DOCCLASS, X>>, Undefined),
      Req(hdr, Jd16, <<"k1">>, <<WS, DOCCLASS, X>>, <<"gemini", "pro">>) }

TailorInputs == InvalidRequests(Hdr1) \cup ValidRequests(Hdr1)

SdkOutcomes ==
    [kind : {"text"}, text : ModelOutputs \cup {Undefined}, status : {200}] \cup
    [kind : {"apiError"}, text : {<<>>}, status : {429, 500}] \cup
    [kind : {"error"}, text : {<<>>}, status : {0}]

\* rawGenerateV1: a text from an ok answer; a thrown Error (non-ok status,
\* network failure)
RawOutcomes ==
    [kind : {"text"}, text : ModelOutputs, status : {200}] \cup
    [kind : {"error"}, text : {<<>>}, status : {0, 404}]

TexName == [segs |-> <<"cv.tex">>, parts |-> <<"tex">>]
UpperTexName == [segs |-> <<"CV.TEX">>, parts |-> <<"TEX">>]
ArchiveName == [segs |-> <<"cv.tar.bz2">>, parts |-> <<"tar", "bz2">>]
TextName == [segs |-> <<"cv.txt">>, parts |-> <<"txt">>]
\* a multipart filename with a directory part: "../cv.tar"
ParentName == [segs |-> <<"..", "cv.tar">>, parts |-> <<"tar">>]

Upload(hdr, name, size, onlyArchive) ==
    [hdr |-> hdr, multipart |-> TRUE, formOk |-> TRUE, hasFile |-> TRUE,
     name |-> name, size |-> size, bytes |-> <<X, "bad", X>>, onlyArchive |-> onlyArchive]

\* uploads that fail validation
InvalidUploads(hdr) ==
    { [Upload(hdr, TexName, 100, FALSE) EXCEPT !.multipart = FALSE],
      [Upload(hdr, TexName, 100, FALSE) EXCEPT !.formOk = FALSE],
      [Upload(hdr, NoName, 0, FALSE) EXCEPT !.hasFile = FALSE],
      Upload(hdr, TextName, 100, FALSE),
      Upload(hdr, TexName, MAX_UPLOAD_BYTES + 1, FALSE) }

ValidUploads(hdr) ==
    { Upload(hdr, TexName, MAX_UPLOAD_BYTES, FALSE),
      Upload(hdr, UpperTexName, 100, TRUE),
      Upload(hdr, ArchiveName, 100, FALSE),
      Upload(hdr, ArchiveName, 100, TRUE),
      Upload(hdr, ParentName, 100, FALSE) }

UploadInputs == InvalidUploads(Hdr1) \cup ValidUploads(Hdr1)

Pdf5 == PdfMagic \o <<X>>

Svc(ok, status, pdfType, body) ==
    [ok |-> ok, status |-> status, pdfType |-> pdfType, body |-> body]

\* answers of the compilation service
ServiceResponses == {
    Svc(TRUE, 200, TRUE, Pdf5),
    Svc(TRUE, 200, FALSE, Pdf5),
    Svc(TRUE, 200, FALSE, <<X, X>>),
    Svc(FALSE, 500, FALSE, <<X, X>>),
    Svc(FALSE, 400, FALSE, <<X, "MissingSty", "foo", X, "MissingSty", "foo">>),
    Svc(FALSE, 400, FALSE, <<"MissingSty", "foo", "MissingSty", "bar">>),
    Svc(FALSE, 500, FALSE, <<"bom", "bad", "MissingSty", "foo">>),
    Svc(FALSE, 400, FALSE, <<"MissingSty", "../../up">>),
    Svc(TRUE, 200, TRUE, <<X, X>>),
    Svc(TRUE, 200, FALSE, PdfMagic) }

\* bodies of requests to /api/compile
CompileReq(tex, engine) == [json |-> TRUE, tex |-> tex, engine |-> engine]

InvalidCompileRequests ==
    { [json |-> FALSE, tex |-> Undefined, engine |-> Undefined],
      CompileReq(Undefined, XELATEX),
      CompileReq(<<>>, Undefined),
      CompileReq(<<X, "\\setmainfont", X>>, Undefined) }

ValidCompileRequests ==
    { CompileReq(<<DOCCLASS, X>>, Undefined),
      CompileReq(<<DOCCLASS, "\\setmainfont">>, Undefined),
      CompileReq(<<DOCCLASS, "fontspec", "\\directlua">>, <<>>),
      CompileReq(<<DOCCLASS, "\\setmainfont">>, PDFLATEX),
      CompileReq(<<X, DOCCLASS, "polyglossia">>, <<"latex">>) }

CompileInputs == InvalidCompileRequests \cup ValidCompileRequests

\* answers of the compilation service to the attempts of /api/compile
CompileResponses == {
    Svc(TRUE, 200, FALSE, Pdf5),
    Svc(TRUE, 200, TRUE, <<X, X>>),
    Svc(FALSE, 500, FALSE, <<X, X>>) }

RateCount(map, ip) == IF ip \in DOMAIN map THEN map[ip].count ELSE 0

----------------------------------------------------------------------------
\* Specifications

InitCommon ==
    /\ now = 0
    /\ env \in EnvChoices
    /\ tailorRate = EmptyMap
    /\ t = TIdle
    /\ tg = TgIdle
    /\ tw = EmptyMap
    /\ rateMap = EmptyMap
    /\ u = UIdle
    /\ ug = UgIdle
    /\ uw = EmptyMap
    /\ fsys = {}
    /\ c = CIdle
    /\ cg = CgIdle
    /\ first = EmptyMap
    /\ history = <<>>
    /\ sv = SvIdle
    /\ saved = <<>>
    /\ fr = FrIdle
    /\ rq = RqIdle
    /\ pp = PpIdle
    /\ store = StoreEmpty
    /\ mw = MwIdle

Init ==
    /\ InitCommon
    /\ hs = HsIdle
    /\ up = NoUpstream

TailorArrive ==
    \E in \in TailorInputs :
        /\ RateCount(tailorRate, ClientIp(in.hdr)) < MaxTailorArrivals
        /\ TailorPOST(in)

SdkAnswer == \E o \in SdkOutcomes : SdkRespond(o)

RawAnswer == \E o \in RawOutcomes : RawRespond(o)

NextTailor ==
    TailorArrive \/ SdkAnswer \/ BackoffElapsed \/ RawAnswer \/ TailorReturn

SpecTailor == Init /\ [][NextTailor]_vars

----------------------------------------------------------------------------
\* SpecRate: clients of both rate-limited endpoints while the clock runs; every
\* upstream call is answered at once with a PDF or a document

InitRate ==
    /\ Init
    /\ env.GEMINI_API_KEY # Undefined /\ env.baseFile # Undefined

\* Date.now() advances by one window length
RateTick ==
    /\ now < MaxTicks * TAILOR_RATE_WINDOW_MS
    /\ now' = now + TAILOR_RATE_WINDOW_MS
    /\ UNCHANGED <<env, extVars, compileVars, tailorVars, uploadVars>>

\* another x-forwarded-for chain of the same client
Hdr2 == <<"a", ",", "c">>

TailorInputsRate ==
    InvalidRequests(Hdr1) \cup
    {Req(Hdr2, Jd16, <<"k1">>, <<WS, DOCCLASS, X>>, Undefined)}

TailorArriveRate ==
    \E in \in TailorInputsRate :
        /\ u.pc = "idle"
        /\ RateCount(tailorRate, ClientIp(in.hdr)) < TAILOR_RATE_MAX + MaxOverLimit
        /\ TailorPOST(in)

SdkAnswerRate == SdkRespond([kind |-> "text", text |-> <<DOCCLASS, X, WS>>, status |-> 200])

UploadInputsRate ==
    { [Upload(Hdr1, TexName, 100, FALSE) EXCEPT !.multipart = FALSE],
      Upload(Hdr2, ArchiveName, 100, FALSE) }

UploadArriveRate ==
    \E in \in UploadInputsRate :
        /\ t.pc = "idle"
        /\ RateCount(rateMap, ClientIp(in.hdr)) < RATE_LIMIT_MAX + MaxOverLimit
        /\ UploadPOST(in, "none")

UploadWriteRate == UploadWritten(TRUE, "none")

ServiceAnswersRate == UploadHeaders(Svc(TRUE, 200, TRUE, Pdf5))

BodyArrivesRate == UploadBody(TRUE)

NextRate ==
    \/ RateTick
    \/ TailorArriveRate \/ SdkAnswerRate \/ TailorReturn
    \/ UploadArriveRate \/ UploadWriteRate \/ ServiceAnswersRate \/ BodyArrivesRate
    \/ UploadReturn

SpecRate == InitRate /\ [][NextRate]_vars

----------------------------------------------------------------------------
\* SpecUpload: one upload, every answer of the service and of the mirror

UploadArrive ==
    \E in \in UploadInputs, fault \in {"none", "mkdtemp"} :
        /\ RateCount(rateMap, ClientIp(in.hdr)) < MaxUploadArrivals
        /\ UploadPOST(in, fault)

UploadWrite == \E ok \in BOOLEAN, fault \in {"none", "tar", "read"} : UploadWritten(ok, fault)

ServiceAnswers == \E r \in ServiceResponses : UploadHeaders(r)

BodyArrives == \E ok \in BOOLEAN : UploadBody(ok)

MirrorAnswers ==
    \E o \in {"ok", "notOk", "throws"}, fault \in {"none", "tar", "read"} :
        CtanAnswers(o, fault)

MirrorBody == \E ok \in BOOLEAN, fault \in {"none", "tar", "read"} : CtanBody(ok, fault)

NextUpload ==
    \/ UploadArrive \/ UploadWrite \/ ServiceAnswers \/ UploadFetchFails
    \/ UploadTimeout \/ BodyArrives \/ MirrorAnswers \/ MirrorBody \/ UploadReturn

SpecUpload == Init /\ [][NextUpload]_vars

----------------------------------------------------------------------------
\* SpecCompile: a client of both compile routes, one request at a time

CompileArrive == \E in \in CompileInputs : u.pc = "idle" /\ CompilePOST(in)

CompileAnswers == \E r \in CompileResponses : CompileHeaders(r)

CompileNetworkFails == \E fault \in {"none", "tar"} : CompileFetchFails(fault)

CompileTimesOut == \E fault \in {"none", "tar"} : CompileTimeout(fault)

CompileBodyArrives == \E ok \in BOOLEAN, fault \in {"none", "tar"} : CompileBody(ok, fault)

UploadArriveNext == c.pc = "idle" /\ UploadArrive

NextCompile ==
    \/ CompileArrive \/ CompileAnswers \/ CompileNetworkFails \/ CompileTimesOut
    \/ CompileBodyArrives \/ CompileReturn
    \/ UploadArriveNext \/ UploadWrite \/ ServiceAnswers \/ UploadFetchFails
    \/ UploadTimeout \/ BodyArrives \/ MirrorAnswers \/ MirrorBody \/ UploadReturn

SpecCompile == InitRate /\ [][NextCompile]_vars

----------------------------------------------------------------------------
\* SpecIdem: one client repeats requests to /api/tailor while the generative
\* API behaves in one fixed way

Upstreams == {
    [sdk |-> [kind |-> "text", text |-> <<DOCCLASS, X, WS>>, status |-> 200],
     raw |-> [kind |-> "text", text |-> <<DOCCLASS, X, WS>>, status |-> 200]],
    [sdk |-> [kind |-> "text", text |-> <<FENCE, X, FENCE>>, status |-> 200],
     raw |-> [kind |-> "text", text |-> <<FENCE, X, FENCE>>, status |-> 200]],
    [sdk |-> [kind |-> "apiError", text |-> <<>>, status |-> 500],
     raw |-> [kind |-> "error", text |-> <<>>, status |-> 404]],
    [sdk |-> [kind |-> "apiError", text |-> <<>>, status |-> 500],
     raw |-> [kind |-> "text", text |-> <<>>, status |-> 200]],
    [sdk |-> [kind |-> "text", text |-> <<>>, status |-> 200],
     raw |-> [kind |-> "text", status |-> 200,
              text |-> <<WS, FENCE, TAG, WS, DOCCLASS, X, WS, FENCE, WS>>]] }

InitIdem ==
    /\ InitCommon
    /\ env.GEMINI_API_KEY # Undefined /\ env.baseFile # Undefined
    /\ hs = HsIdle
    /\ up \in Upstreams

IdemInputs ==
    { BadJson,
      Req(Hdr1, <<WS>> \o Jd15 \o <<WS, WS>>, <<"k1">>, <<WS, DOCCLASS, X>>, Undefined),
      Req(Hdr1, Jd16, <<"k1">>, <<WS, DOCCLASS, X>>, <<"gemini", "pro">>),
      Req(Hdr1, Jd16, <<"k2">>, <<WS, DOCCLASS, X>>, <<"gemini", "pro">>),
      Req(Hdr1, <<WS>> \o Jd16, Undefined, Undefined, Undefined) }

IdemArrive ==
    \E in \in IdemInputs :
        /\ RateCount(tailorRate, ClientIp(in.hdr)) < TAILOR_RATE_MAX + MaxOverLimit
        /\ TailorPOST(in)

IdemSdkAnswer == SdkRespond(up.sdk)

IdemRawAnswer == RawRespond(up.raw)

NextIdem == IdemArrive \/ IdemSdkAnswer \/ IdemRawAnswer \/ TailorReturnNoted

SpecIdem == InitIdem /\ [][NextIdem]_vars

----------------------------------------------------------------------------
\* SpecPopup: the popup page; its request queue is used by any caller, the
\* browser goes offline and online, and the user clicks Generate

Enqueues ==
    \E cb \in {<<"returns", "returns">>, <<"throws", "returns">>,
               <<"returns", "throws">>, <<"none", "none">>} :
        Enqueue("request", cb[1], cb[2])

RequestAnswers == \E ok \in BOOLEAN : RequestSettles(ok)

GenerateClicked == handleGenerateClick

TailorMessage ==
    \E a \in {"tex", "NETWORK_ERROR", "API_ERROR", "threw"} : TailorMessageAnswered(a)

CompileMessage ==
    \E a \in {"pdf", "NETWORK_ERROR", "API_ERROR", "threw"} : CompileMessageAnswered(a)

NextPopup ==
    \/ Enqueues \/ RequestAnswers \/ QueueDelayElapsed \/ onOnline \/ onOffline
    \/ GenerateClicked \/ TailorMessage \/ CompileMessage

SpecPopup == InitRate /\ [][NextPopup]_vars

----------------------------------------------------------------------------
\* SpecSettings: the settings are written through SET_STORAGE messages and
\* through the settings page

KeyInputs ==
    { Undefined, Rep(X, 5), Rep(X, 20), Rep(X, 100), Rep(X, 101),
      Rep(X, 19) \o <<"!">>, <<WS>> \o Rep(X, 18) \o <<"-", "_", WS>> }

UrlInputs ==
    { AbsentUrl, EmptyUrl, NotAUrl, Url("https", "example.com"),
      Url("http", "example.com"), Url("http", "localhost"),
      Url("http", "LOCALHOST"), Url("http", "127.0.0.1"),
      Url("http", "localhost.example.com"), Url("ftp", "example.com") }

SetStorageMessage ==
    \E key \in KeyInputs \cup {<<>>}, url \in UrlInputs, ok \in BOOLEAN :
        setStorage([apiKey |-> key, backendUrl |-> url], ok)

SaveClicked ==
    \E key \in (KeyInputs \ {Undefined}) \cup {<<>>}, url \in UrlInputs, ok \in BOOLEAN :
        handleSave(url, key, ok)

ResetClicked == \E ok \in BOOLEAN : handleReset(ok)

NextSettings == SetStorageMessage \/ SaveClicked \/ ResetClicked

SpecSettings == InitRate /\ [][NextSettings]_vars

----------------------------------------------------------------------------
\* SpecAuth: page requests with issued, altered and made-up cookies and
\* Basic credentials, over more than a week

Deployments ==
    \E secret \in {"", "s1"}, basic \in BOOLEAN :
        Configure(secret, IF basic THEN "user" ELSE "", IF basic THEN "pass" ELSE "")

\* cookies a client can send: the issued one, the issued payload without or
\* with another signature, and payloads of its own making
ClientCookies ==
    LET own == { Base64(PayloadJson(0)), Base64(NullJson), Base64(BadJson2) }
    IN  { NoCookie, mw.issued,
          [mw.issued EXCEPT !.sig = <<>>],
          [mw.issued EXCEPT !.sig = HmacHex("s2", mw.issued.b64)],
          [present |-> TRUE, b64 |-> Base64(PayloadJson(0)),
           sig |-> HmacHex("s2", Base64(PayloadJson(0)))] }
        \cup { [present |-> TRUE, b64 |-> b, sig |-> <<>>] : b \in own }

BasicFields ==
    { <<"user", "pass">>, <<"user", "pass", "x">>, <<"user", "other">>, <<"user">> }

PageRequests ==
    \E pathname \in {"/", "/api"}, cookie \in ClientCookies,
       basic \in BOOLEAN, fields \in BasicFields :
          /\ (~basic => fields = <<"user">>)
          /\ middleware(pathname, cookie, basic, fields)

NextAuth == Deployments \/ OAuthCallback \/ PageRequests \/ HalfWeekPasses

SpecAuth == InitRate /\ [][NextAuth]_vars

----------------------------------------------------------------------------
\* SpecConc: one client's requests to one rate-limited route, handled
\* simultaneously, while the clock runs

InitConc ==
    /\ InitCommon
    /\ env.GEMINI_API_KEY # Undefined /\ env.baseFile # Undefined
    /\ hs \in {HsIdle, [HsIdle EXCEPT !.route = "upload"]}
    /\ up = NoUpstream

ConcArrives ==
    \E h \in Handlers, hdr \in {Hdr1, Hdr2} :
        /\ IF hs.route = "tailor"
           THEN RateCount(tailorRate, ClientIp(hdr)) < TAILOR_RATE_MAX + MaxOverLimit
           ELSE RateCount(rateMap, ClientIp(hdr)) < RATE_LIMIT_MAX + MaxOverLimit
        /\ ConcArrive(h, hdr)

ConcBodyParsed == \E h \in Handlers, ok \in BOOLEAN : ConcParsed(h, ok)

ConcReturns == \E h \in Handlers : ConcReturn(h)

NextConc == RateTick \/ ConcArrives \/ ConcBodyParsed \/ ConcReturns

SpecConc == InitConc /\ [][NextConc]_vars

----------------------------------------------------------------------------
\* SpecExt: the extension's service worker: tailoring results are saved while
\* other saves are in progress; fetchWithRetry runs with every kind of answer

SaveStart == \E h \in Savers : SaveToHistory(h)

SaveRead == \E h \in Savers, ok \in BOOLEAN : SaveGot(h, ok)

SaveWritten == \E h \in Savers, ok \in BOOLEAN : SaveSet(h, ok)

FetchStart == \E m \in 0..3 : FetchWithRetry(m)

FetchAnswer == \E status \in {0, 200, 404, 429, 500, 503} : FetchSettles(status)

NextExt ==
    \/ SaveStart \/ SaveRead \/ SaveWritten
    \/ FetchStart \/ FetchAnswer \/ FetchBackoffElapsed \/ FetchSettled

SpecExt == InitRate /\ [][NextExt]_vars
----------------------------------------------------------------------------
\* Properties of /api/tailor

TailorCalling == t.pc \in {"sdkCall", "rawCall"}

TailorDone == t.pc = "done"

\* the base resume of the request in progress: the caller's, else the template
OriginalBase == IF Truthy(t.baseTex) THEN t.baseTex ELSE env.baseFile

\* C4 as stated: generative calls are sequential and no call follows a call
\* that returned non-empty text.
C4_NoCallAfterNonEmptyText ==
    tg.inflight <= 1 /\ ~tg.callAfterNonEmpty

\* C4, amended: generative calls are sequential and no call of either
\* convention follows a call that returned text that is non-empty after
\* trimming; an answer of whitespace only counts as empty.
C4_NoCallAfterNonBlankText ==
    tg.inflight <= 1 /\ ~tg.callAfterNonBlank

\* C4 witness: the raw-HTTP pass got a text while candidates remained untried
C4_Witness ==
    /\ TailorDone /\ t.resp.status = 200
    /\ tg.gotNonBlank /\ tg.rawCalls > 0 /\ tg.rawCalls < Len(t.models)

\* the orchestrator leaves the model it was backing off for
LeavesModelAfter429 ==
    t.pc = "sdkBackoff" /\ (t'.pc # "sdkCall" \/ t'.idx # t.idx)

\* C5 as stated: a model that keeps answering 429 is retried 3 times (called
\* 4 times) before the orchestrator moves on.
C5_ThreeRetries ==
    [][LeavesModelAfter429 => tg.modelCalls = 1 + 3]_vars

\* C5, amended: a model is called at most 3 times in all (the first call and
\* at most 2 retries); the waits after its 1st, 2nd and 3rd 429 are 1 s, 2 s
\* and 4 s; the orchestrator leaves the model only after the third 429 and
\* its wait, so the calls to one model are bounded.
C5_ThreeCallsWithBackoff ==
    /\ [](tg.modelCalls <= 3)
    /\ [](t.pc = "sdkBackoff" =>
            /\ tg.modelCalls \in 1..3
            /\ t.delay = <<1000, 2000, 4000>>[tg.modelCalls])
    /\ [][LeavesModelAfter429 => tg.modelCalls = 3 /\ t.delay = 4000]_vars
    /\ [][(t.pc = "sdkBackoff" /\ ~LeavesModelAfter429) =>
             tg'.modelCalls = tg.modelCalls + 1]_vars

\* C5 witness: the third 429 of one model, waiting 4 s
C5_Witness == t.pc = "sdkBackoff" /\ tg.modelCalls = 3 /\ t.delay = 4000

\* C6: when the SDK pass yields nothing, the raw-HTTP pass tries every
\* candidate until one returns text; a failing raw call does not stop it.
C6_FallbackTriesEveryCandidate ==
    (TailorDone /\ t.resp.status = 502) => tg.rawCalls = Len(t.models)

\* C7: the candidate list has no duplicate and, on exhaustion (502), the
\* attempted-model list is as long as the deduplicated candidate list.
C7_NoDuplicateCandidates ==
    /\ TailorCalling => Cardinality(Range(t.models)) = Len(t.models)
    /\ (TailorDone /\ t.resp.status = 502) =>
          Len(t.resp.tried) = Cardinality(Range(t.models))

\* C8: every 200 answer of tailor carries a text with a \documentclass token.
C8_ResultHasDocumentclass ==
    (TailorDone /\ t.resp.status = 200) => DOCCLASS \in Range(t.resp.tex)

\* C9: when the model's answer, fences stripped and trimmed, has no
\* \documentclass token, tailor answers 200 with exactly the original base.
C9_FallsBackToBase ==
    (TailorDone /\ tg.gotNonBlank
       /\ DOCCLASS \notin Range(Trim(stripCodeFences(t.tex))))
    => (t.resp.status = 200 /\ t.resp.tex = OriginalBase)

\* C21: an SDK call that fails with an error other than HTTP 429 is the last
\* call to its candidate: the next call is the first call to the next
\* candidate, or, after the last candidate, the first raw-HTTP call; the
\* request is not answered at that step.
C21_OtherErrorAbandonsModel ==
    [][(t.pc = "sdkCall" /\ tg' # tg /\ tg'.lastSdk = "error") =>
          /\ t'.pc # "done" /\ t'.pc # "sdkBackoff"
          /\ IF t.idx < Len(t.models)
             THEN /\ t'.pc = "sdkCall" /\ t'.idx = t.idx + 1
                  /\ t'.i = 0 /\ tg'.modelCalls = 1
             ELSE t'.pc = "rawCall" /\ t'.idx = 1]_vars

\* C21 witness: the second candidate is being called after the first failed
\* with an error other than 429 in its one call
C21_Witness ==
    t.pc = "sdkCall" /\ t.idx = 2 /\ tg.lastSdk = "error" /\ tg.modelCalls = 1

\* an identifier of a model that is not a text model
ExcludedModel(m) == "embedding" \in Range(m) \/ "gecko" \in Range(m)

\* the candidates of the request in progress, as the claim lists them
CandidateList ==
    SelectSeq(<<t.model, env.GEMINI_MODEL>> \o StaticModels,
              LAMBDA m : m # Undefined /\ m # <<>> /\ ~ExcludedModel(m))

\* C22: the candidate list is [requestedModel, serverDefaultModel, static
\* models...] in that order without its absent entries and without the
\* identifiers containing "embedding" or "gecko"; the SDK pass and the
\* raw-HTTP pass each start at the first candidate and go through the list in
\* order, and an excluded identifier is never called.
C22_CandidatesInOrderAndFiltered ==
    /\ [](t.pc \in {"sdkCall", "sdkBackoff", "rawCall"} =>
            /\ t.models = CandidateList
            /\ t.idx \in 1..Len(t.models)
            /\ ~ExcludedModel(t.models[t.idx]))
    /\ [][/\ (t.pc = "idle" /\ t'.pc = "sdkCall") => t'.idx = 1
          /\ (t.pc = "sdkCall" /\ t'.pc = "sdkCall") => t'.idx = t.idx + 1
          /\ (t.pc = "sdkBackoff" /\ t'.pc = "sdkCall") => t'.idx \in {t.idx, t.idx + 1}
          /\ (t.pc # "rawCall" /\ t'.pc = "rawCall") => t'.idx = 1
          /\ (t.pc = "rawCall" /\ t'.pc = "rawCall") => t'.idx = t.idx + 1
          /\ (t.pc \notin {"idle", "done"} /\ t'.pc # "idle") => t'.models = t.models]_vars

\* C22 witness: the requested model is an embedding model; the raw-HTTP pass
\* is at its second candidate, the first being the server's default model
C22_Witness ==
    /\ t.pc = "rawCall" /\ t.idx = 2 /\ "embedding" \in Range(t.model)
    /\ env.GEMINI_MODEL # Undefined /\ t.models[1] = env.GEMINI_MODEL
    /\ Len(t.models) = 11

\* C9 witness: a fenced answer without \documentclass was replaced by the base
C9_Witness ==
    /\ TailorDone /\ t.tex = <<FENCE, X, FENCE>>
    /\ t.resp.status = 200 /\ t.resp.tex = OriginalBase

\* a request whose body parsed and whose job description is missing or shorter
\* than 16 characters once trimmed has been answered
InvalidJdAnswered ==
    TailorDone /\ t.parsed /\ (~Truthy(t.jd) \/ Len(Trim(t.jd)) < 16)

AnsweredBefore == TailorDone /\ TheRequest \in DOMAIN first

\* C26 as stated: with a fixed upstream response, a tailor call gets the same
\* status and body as every earlier call with the same input.
C26_SameInputSameOutput ==
    AnsweredBefore => t.resp = first[TheRequest]

\* C26, amended: with a fixed upstream response, two tailor calls with the
\* same input that the rate limiter both admits get the same status and body;
\* a call whose body parsed is answered 429 instead exactly when it is beyond
\* the client's 20 requests of the window.
C26_SameOutputWhenAdmitted ==
    /\ (AnsweredBefore /\ t.resp.status # 429 /\ first[TheRequest].status # 429) =>
          t.resp = first[TheRequest]
    /\ TailorDone =>
          (t.resp.status = 429 <=> (t.parsed /\ tailorRate[t.ip].count > 20))

\* C26 witness: the 20th request of the window repeats an earlier one and
\* gets the same document, taken out of its code fence
C26_Witness ==
    /\ AnsweredBefore /\ t.parsed /\ t.model = <<"gemini", "pro">>
    /\ tailorRate[t.ip].count = 20
    /\ t.resp = first[TheRequest] /\ t.resp.status = 200
    /\ t.resp.tex = <<DOCCLASS, X>> /\ tg.rawCalls = 1

\* the tokens of the keys the request in progress can use
KeyTokens ==
    UNION { Range(k) : k \in { k \in {t.apiKey, env.GEMINI_API_KEY} : Truthy(k) } }

\* the tokens written to the server log while the request was handled
LoggedTokens ==
    UNION { Range(l.text) \cup UNION { Range(m) : m \in Range(l.models) } :
            l \in Range(tg.logged) }

\* the tokens of the body of the response
ResponseTokens ==
    {t.resp.error} \cup UNION { Range(m) : m \in Range(t.resp.tried) }

\* an earlier request that was the one in progress but for its key
SameButKey(r) ==
    /\ r = [TheRequest EXCEPT !.apiKey = r.apiKey]
    /\ Truthy(r.apiKey) /\ Truthy(t.apiKey)

GenerateQueued ==
    \/ \E k \in 1..Len(rq.queue) : rq.queue[k].fn = "generate"
    \/ \E k \in 1..Len(rq.started) : rq.started[k].fn = "generate"

\* C31: once a Generate click has failed because the browser was offline or
\* the network failed, its request is in the RequestQueue or has been run
\* again by it.
C31_FailedRequestQueued == pp.networkFailed => GenerateQueued

\* C32: the apiKey held by chrome.storage.local, if any, passes the format
\* check (20 to 100 characters of [A-Za-z0-9_-] once trimmed), whichever code
\* path wrote it.
C32_StoredKeyWellFormed ==
    store.apiKey # Undefined => validateApiKeyFormat(store.apiKey)

\* C33: the backendUrl held by chrome.storage.local, if any, uses https or
\* names the host localhost or 127.0.0.1.
C33_StoredUrlSecure ==
    store.backendUrl.given =>
        \/ store.backendUrl.scheme = "https"
        \/ hostname(store.backendUrl) \in {"localhost", "127.0.0.1"}

\* the last request was for a protected page and was passed through
PassedProtected == mw.result = "next" /\ ~PassThroughPath(mw.req.pathname)

\* the cookie of the last request verifies: signed with SESSION_SECRET when
\* one is configured, an object, and not past its expiry
SessionVerifies ==
    LET k == mw.req.cookie IN
    /\ k.present /\ k.b64 # <<>>
    /\ mw.secret # "" => k.sig = HmacHex(mw.secret, k.b64)
    /\ FromBase64(k.b64).json = "object"
    /\ FromBase64(k.b64).exp # 0 => mw.req.at <= FromBase64(k.b64).exp

\* C39: a request for a protected page is passed through only if its session
\* cookie verifies or, Basic auth being configured, its Basic credentials are
\* BASIC_AUTH_USER and BASIC_AUTH_PASS.
C39_PassOnlyAuthenticated ==
    PassedProtected =>
        \/ SessionVerifies
        \/ /\ mw.user # "" /\ mw.pass # ""
           /\ mw.req.basic /\ mw.req.fields = <<mw.user, mw.pass>>

\* C39 with the credentials read as the code reads them: the first two
\* fields of the decoded value
PassOnlyWithMatchingFields ==
    /\ PassedProtected =>
        \/ SessionVerifies
        \/ /\ mw.user # "" /\ mw.pass # ""
           /\ mw.req.basic /\ Len(mw.req.fields) >= 2
           /\ mw.req.fields[1] = mw.user /\ mw.req.fields[2] = mw.pass
    /\ mw.result \in {"none", "next", "401", "redirect"}

\* an issued cookie is refused after its expiry time
IssuedCookieExpires ==
    /\ mw.req.cookie.present /\ mw.req.cookie = mw.issued
    /\ mw.req.pathname = "/" /\ ~mw.req.basic
    /\ mw.result # "next" /\ mw.req.at > FromBase64(mw.req.cookie.b64).exp

\* C37: the RequestQueue calls the request functions in the order of the
\* enqueue calls, each at most once and while the browser is online, and an
\* item that has both callbacks gets exactly one of them.
C37_FifoOnceOneCallback ==
    /\ \A i, j \in 1..Len(rq.started) :
          i < j => rq.started[i].id < rq.started[j].id
    /\ \A k \in 1..Len(rq.started) : rq.started[k].onLine
    /\ \A k \in 1..Len(rq.done) :
          rq.done[k].both => (rq.done[k].onSuccess # rq.done[k].onError)

\* the part of C37 that does not depend on the callbacks
QueueFifoOnceOnline ==
    /\ \A i, j \in 1..Len(rq.started) :
          i < j => rq.started[i].id < rq.started[j].id
    /\ \A k \in 1..Len(rq.started) : rq.started[k].onLine
    /\ \A k \in 1..Len(rq.done) :
          rq.done[k].both => (rq.done[k].onSuccess \/ rq.done[k].onError)

\* C38: whenever processQueue is not running, isProcessing is false, so
\* that a later enqueue or online event starts the processing again.
C38_ProcessingFlagReset == rq.pc = "idle" => ~rq.isProcessing

----------------------------------------------------------------------------
\* Properties of the rate limiters

\* C3: per endpoint and client, at most 20 (tailor) or 30 (upload) requests are
\* admitted in one fixed 60 s window; every further request of the window is
\* answered 429 and causes no upstream call.
C3_AtMostNAdmittedPerWindow ==
    /\ \A ip \in DOMAIN tw : tw[ip].admitted <= 20
    /\ \A ip \in DOMAIN uw : uw[ip].admitted <= 30
    /\ (t.pc # "idle" /\ t.parsed /\ tw[t.ip].seen > 20) =>
          (TailorDone /\ t.resp.status = 429 /\ ~tg.called)
    /\ (u.pc # "idle" /\ uw[u.ip].seen > 30) =>
          (u.pc = "done" /\ u.resp.status = 429 /\ ~ug.called)

\* C3 witness: in a window that followed another one, the 21st request to
\* tailor is answered 429 while the upload limiter of the client is full
C3_Witness ==
    /\ TailorDone /\ t.resp.status = 429 /\ ~tg.called
    /\ tw[t.ip].start > 0 /\ tw[t.ip].admitted = 20 /\ tw[t.ip].seen = 21
    /\ t.ip \in DOMAIN uw /\ uw[t.ip].admitted = 30 /\ uw[t.ip].seen > 30

\* what the request of a client that reaches a limiter at time `now` does to
\* the client's entry, and whether it may be rejected
WindowStep(map, mapNext, ip, rejected, max) ==
    /\ ip \in DOMAIN mapNext
    /\ IF ip \in DOMAIN map /\ now <= map[ip].resetAt
       THEN /\ mapNext[ip].resetAt = map[ip].resetAt
            /\ mapNext[ip].count = map[ip].count + 1
            /\ rejected <=> map[ip].count >= max
       ELSE /\ mapNext[ip] = [count |-> 1, resetAt |-> now + 60 * 1000]
            /\ ~rejected

\* C25: a request that arrives after the reset time of the client's window
\* starts a new window of 60 s with the counter at 1 and is admitted, also
\* when the client was rejected before; a request that arrives up to the
\* reset time, admitted or rejected, leaves the reset time as it is.
C25_WindowResetsAndIsNotPostponed ==
    [][/\ (t.pc = "idle" /\ t'.pc # "idle" /\ t'.parsed) =>
             WindowStep(tailorRate, tailorRate', t'.ip, t'.resp.status = 429, 20)
       /\ (u.pc = "idle" /\ u'.pc # "idle") =>
             WindowStep(rateMap, rateMap', u'.ip, u'.resp.status = 429, 30)
       /\ (t'.pc = t.pc \/ t'.pc = "idle" \/ ~t'.parsed) => tailorRate' = tailorRate
       /\ (u'.pc = u.pc \/ u'.pc = "idle") => rateMap' = rateMap]_vars

\* C25 witness: a client whose requests were rejected in an earlier window of
\* /api/tailor is admitted in a new one, which ends 60 s after that request
C25_Witness ==
    /\ t.pc = "done" /\ t.parsed /\ t.resp.status # 429
    /\ tw[t.ip].before /\ tw[t.ip].start = now /\ now > 60000
    /\ tailorRate[t.ip] = [count |-> 1, resetAt |-> now + 60000]

\* the counter of a client in a limiter map, 0 without an entry
CountOf(map, ip) == IF ip \in DOMAIN map THEN map[ip].count ELSE 0

\* handler h goes through the limiter in this step
Limits(h) ==
    hs.run[h].pc \in {"idle", "json"} /\ hs'.run[h].pc \in {"admitted", "rejected"}

\* what a limiter step of a handler with client ip does to the map: the
\* counter goes up by one, or restarts at 1 in a new window that ends 60 s
\* later, and the handler is rejected exactly when the new value is above max
LimiterStep(map, mapNext, ip, rejected, max) ==
    /\ ip \in DOMAIN mapNext
    /\ \/ /\ mapNext[ip].count = CountOf(map, ip) + 1
          /\ ip \in DOMAIN map => mapNext[ip].resetAt = map[ip].resetAt
       \/ /\ ip \in DOMAIN map /\ now > map[ip].resetAt
          /\ mapNext[ip] = [count |-> 1, resetAt |-> now + 60000]
    /\ rejected <=> mapNext[ip].count > max

\* C24: with requests handled simultaneously, every step in which a handler
\* goes through a limiter is a compare-and-increment on the client's entry;
\* the counter of a client holds every request of the current window that
\* reached the limiter (no increment is lost); every handler is in a
\* position of the code (none crashed); and at most limit + 1 requests of one
\* client are admitted in one window.
C24_AtomicCheckAndIncrement ==
    /\ [](/\ \A ip \in DOMAIN tailorRate :
               ip \in DOMAIN tw /\ tailorRate[ip].count = tw[ip].seen
                                /\ tw[ip].admitted <= 20 + 1
          /\ \A ip \in DOMAIN rateMap :
               ip \in DOMAIN uw /\ rateMap[ip].count = uw[ip].seen
                                /\ uw[ip].admitted <= 30 + 1
          /\ \A h \in Handlers :
               hs.run[h].pc \in {"idle", "json", "admitted", "rejected", "failed"})
    /\ [][\A h \in Handlers : Limits(h) =>
            IF hs.route = "tailor"
            THEN LimiterStep(tailorRate, tailorRate', hs'.run[h].ip,
                             hs'.run[h].pc = "rejected", 20)
            ELSE LimiterStep(rateMap, rateMap', hs'.run[h].ip,
                             hs'.run[h].pc = "rejected", 30)]_vars

\* C24 witness: in a window that followed another one, three requests to
\* /api/tailor are in progress at once: two were admitted, the third is the
\* 21st of the window and was rejected
C24_Witness ==
    /\ hs.route = "tailor" /\ now > 0
    /\ \E h1, h2, h3 \in Handlers :
          /\ h1 # h2
          /\ hs.run[h1].pc = "admitted" /\ hs.run[h2].pc = "admitted"
          /\ hs.run[h3].pc = "rejected"
          /\ tailorRate[hs.run[h3].ip].count = 21 /\ tw[hs.run[h3].ip].admitted = 20
          /\ tw[hs.run[h3].ip].start > 0

----------------------------------------------------------------------------
\* Properties of the compile routes

UploadDone == u.pc = "done"

\* C1: when a compile invocation has returned, its temporary working directory
\* and every file in it no longer exist.
C1_NoTempFilesAfterReturn ==
    UploadDone => \A p \in fsys : ~InsideTmp(p)

\* C11: within one compile request at most two uploads go to the archive
\* endpoint and the recovery phase is entered at most once, even when the
\* retried attempt reports a missing package again.
C11_AtMostOneRetry ==
    Len(ug.uploads) <= 2 /\ ug.recoveries <= 1

\* C11 witness: the retried attempt failed with a missing package again and
\* the request returned after two uploads and one recovery
C11_Witness ==
    /\ UploadDone /\ Len(ug.uploads) = 2 /\ ug.recoveries = 1
    /\ ~u.resp2.ok /\ MissingNames(u.resp2.body) # <<>> /\ u.buf = u.resp2.body

\* C12: when the first attempt failed for a missing foo.sty and the mirror
\* delivered foo, the archive of the retried attempt holds foo.sty alongside
\* main.tex.
C12_RetryArchiveHasFetchedPackages ==
    Len(ug.uploads) >= 2 =>
        /\ "main.tex" \in ug.uploads[2]
        /\ \A sty \in ug.fetched : (sty \o ".sty") \in ug.uploads[2]

\* the recovery ran and the mirror delivered no package
NothingFetched == UploadDone /\ ug.recoveries = 1 /\ ug.fetched = {}

\* C13 as stated: when no missing package can be fetched, no retry archive is
\* built, no second upload is made and the response is the first attempt's
\* status and body, unchanged.
C13_FirstDiagnosticUnchanged ==
    NothingFetched =>
        /\ ~ug.rebuilt /\ Len(ug.uploads) = 1
        /\ u.resp.status = u.resp1.status /\ u.resp.body = u.resp1.body

\* C13, amended: when no missing package can be fetched, no retry archive is
\* built, no second upload is made and the response has the first attempt's
\* status and its body decoded as UTF-8 text: a leading byte-order mark is
\* dropped and every byte that is not UTF-8 is replaced by U+FFFD.
C13_FirstDiagnosticDecoded ==
    NothingFetched =>
        /\ ~ug.rebuilt /\ Len(ug.uploads) = 1
        /\ u.resp.status = u.resp1.status /\ u.resp.kind = "text"
        /\ u.resp.body = Decode(u.resp1.body)

\* C13 witness: every fetch of the mirror failed and the log returned differs
\* from the bytes the service sent
C13_Witness ==
    /\ NothingFetched /\ Len(ug.uploads) = 1 /\ u.resp.status = 500
    /\ u.resp.body = <<"fffd", "MissingSty", "foo">> /\ u.resp.body # u.resp1.body

\* the upload in progress is a caller-supplied archive: its name does not end
\* in .tex
SuppliedArchive ==
    u.pc # "idle" /\ u.name.parts # <<>>
    /\ Lower(u.name.parts[Len(u.name.parts)]) # "tex"

\* C18: a caller-supplied archive is sent to the archive endpoint byte for
\* byte, at most once, and is never rewritten; the missing-package recovery
\* runs only for an archive built locally from a .tex upload.
C18_SuppliedArchiveUntouched ==
    /\ SuppliedArchive =>
          /\ Len(ug.bodies) <= 1
          /\ \A i \in 1..Len(ug.bodies) : ug.bodies[i] = u.bytes
          /\ ug.recoveries = 0 /\ ug.fetched = {} /\ ~ug.rebuilt
    /\ ug.recoveries > 0 => (u.workdir /\ ~SuppliedArchive)

\* C18 witness: the service reported a missing package for a supplied archive
\* and the request returned its log after the one upload
C18_Witness ==
    /\ SuppliedArchive /\ UploadDone
    /\ ~u.resp1.ok /\ MissingNames(Decode(u.resp1.body)) # <<>>
    /\ ug.bodies = <<u.bytes>> /\ ug.recoveries = 0
    /\ u.resp.status = u.resp1.status

\* C19: every file written for a compile request lies inside the request's
\* temporary directory, whatever the uploaded file name and the package names
\* found in the log.
C19_WritesStayInsideTmp ==
    \A p \in fsys : Len(p) >= 1 /\ p[1] = "latex-upload-XXXXXX"

CompileDone == c.pc = "done"

\* the first four bytes are the ASCII literal %PDF
StartsWithPdf(body) == Len(body) >= 4 /\ SubSeq(body, 1, 4) = <<"%", "P", "D", "F">>

\* C14: a response is returned as a PDF only if the first four bytes of the
\* service's body are %PDF; a declared PDF content type alone never suffices.
C14_SuccessOnlyWithPdfSignature ==
    /\ (CompileDone /\ c.resp.status = 200) => StartsWithPdf(c.resp.body)
    /\ (UploadDone /\ u.resp.kind = "pdf") => StartsWithPdf(u.resp.body)

\* C34: the upload route answers with a 2xx status only when the body it
\* returns is a PDF or the requested archive, and a response that carries
\* log text has a status that is not 2xx.
C34_SuccessOnlyWithPdfBody ==
    UploadDone =>
        /\ u.resp.status \in 200..299 =>
              (u.resp.kind = "archive" \/ StartsWithPdf(u.resp.body))
        /\ u.resp.kind = "text" => u.resp.status \notin 200..299

\* C15 as stated: an ok response whose body has at least 4 bytes and starts
\* with %PDF is a success, whatever its content type.
C15_SignatureOfFourBytesSucceeds ==
    /\ \A i \in 1..Len(cg.outcomes) :
          (cg.outcomes[i].ok /\ StartsWithPdf(cg.outcomes[i].body)) =>
              /\ i = Len(cg.calls) /\ CompileDone
              /\ c.resp.status = 200 /\ c.resp.body = cg.outcomes[i].body
    /\ (UploadDone /\ u.resp1.ok /\ StartsWithPdf(u.resp1.body) /\ u.buf = u.resp1.body) =>
          (u.resp.status = 200 /\ u.resp.kind = "pdf" /\ u.resp.body = u.resp1.body)

\* C15, amended: an ok response whose body has more than 4 bytes and starts
\* with %PDF is a success, whatever its content type: it ends the request
\* with status 200 and that body, and no further attempt is made.
C15_SignatureAndMoreSucceeds ==
    /\ \A i \in 1..Len(cg.outcomes) :
          (cg.outcomes[i].ok /\ Len(cg.outcomes[i].body) > 4
             /\ StartsWithPdf(cg.outcomes[i].body)) =>
              /\ i = Len(cg.calls) /\ CompileDone
              /\ c.resp.status = 200 /\ c.resp.body = cg.outcomes[i].body
    /\ (UploadDone /\ u.resp1.ok /\ Len(u.resp1.body) > 4 /\ StartsWithPdf(u.resp1.body)
          /\ u.buf = u.resp1.body) =>
          (u.resp.status = 200 /\ u.resp.kind = "pdf" /\ u.resp.body = u.resp1.body)
    /\ (UploadDone /\ u.resp2.ok /\ Len(u.resp2.body) > 4 /\ StartsWithPdf(u.resp2.body)
          /\ u.buf = u.resp2.body /\ u.buf # u.resp1.body) =>
          (u.resp.status = 200 /\ u.resp.kind = "pdf" /\ u.resp.body = u.resp2.body)

\* C15 witness: after a failed POST, the GET variant was answered text/plain
\* with a body of five bytes that starts with %PDF, and the request succeeded
C15_Witness ==
    /\ CompileDone /\ c.resp.status = 200 /\ Len(cg.calls) = 2
    /\ ~cg.outcomes[2].pdfType /\ Len(cg.outcomes[2].body) = 5
    /\ c.resp.body = cg.outcomes[2].body

\* the calls a request makes when every attempt fails: POST then GET for each
\* engine of the trial order, then the archive upload with the plain engine
CallsInOrder(engines) ==
    [k \in 1..(2 * Len(engines) + 1) |->
        IF k = 2 * Len(engines) + 1
        THEN [method |-> "archive", engine |-> <<"pdflatex">>]
        ELSE [method |-> IF k % 2 = 1 THEN "POST" ELSE "GET",
              engine |-> engines[(k + 1) \div 2]]]

\* the service's answer counts as a PDF for the code
AnsweredPdf(o) == o.ok /\ (o.pdfType \/ (Len(o.body) > 4 /\ StartsWithPdf(o.body)))

\* C16: on the text-body path the calls are POST then GET per engine in trial
\* order, then the archive upload with the plain engine; a call is made only
\* after every earlier call failed, and the first success returns its PDF at
\* once.
C16_AttemptsInOrder ==
    c.pc \in {"fetch", "body", "done"} =>
        /\ Len(cg.calls) <= 2 * Len(c.engines) + 1
        /\ \A k \in 1..Len(cg.calls) : cg.calls[k] = CallsInOrder(c.engines)[k]
        /\ Len(cg.outcomes) <= Len(cg.calls)
        /\ \A k \in 1..Len(cg.outcomes) :
              IF AnsweredPdf(cg.outcomes[k])
              THEN /\ k = Len(cg.calls) /\ CompileDone
                   /\ c.resp.status = 200 /\ c.resp.body = cg.outcomes[k].body
              ELSE ~(CompileDone /\ c.resp.status = 200 /\ k = Len(cg.calls))
        /\ \A k \in 1..(Len(cg.calls) - 1) :
              k <= Len(cg.outcomes) /\ ~AnsweredPdf(cg.outcomes[k])

\* C16 witness: four engines failed with POST and with GET and the archive
\* upload, the ninth call, returned the PDF
C16_Witness ==
    /\ CompileDone /\ c.resp.status = 200 /\ Len(c.engines) = 4
    /\ Len(cg.calls) = 9 /\ cg.calls[9].method = "archive"
    /\ cg.calls[9].engine = <<"pdflatex">> /\ cg.calls[8].method = "GET"

\* the engine label of the k-th attempt when every attempt fails
AttemptLabel(engines, k) ==
    IF k = 2 * Len(engines) + 1 THEN <<"tar-bz2">> ELSE engines[(k + 1) \div 2]

\* C23: a text-body request whose every attempt failed is answered 502 with
\* an attempt list of 2 x engines + 1 entries in the order tried: for each
\* engine of the trial order the POST entry and the GET entry, then the
\* archive entry; each entry carries the status of its attempt's response,
\* or none when the attempt threw.
C23_AttemptListComplete ==
    /\ (CompileDone /\ cg.calls # <<>> /\ c.resp.status # 200) => c.resp.status = 502
    /\ (CompileDone /\ c.resp.status = 502) =>
          /\ Len(c.resp.tried) = 2 * Len(c.engines) + 1
          /\ Len(cg.calls) \in {2 * Len(c.engines), 2 * Len(c.engines) + 1}
          /\ \A k \in 1..Len(c.resp.tried) :
                /\ c.resp.tried[k].engine = AttemptLabel(c.engines, k)
                /\ k <= Len(cg.outcomes) =>
                      c.resp.tried[k].status =
                          (IF cg.outcomes[k].status = -1 THEN 0 ELSE cg.outcomes[k].status)

\* C23 witness: four engines and the archive upload failed, some attempts by
\* throwing: the 502 carries nine entries
C23_Witness ==
    /\ CompileDone /\ c.resp.status = 502 /\ Len(c.engines) = 4
    /\ Len(c.resp.tried) = 9 /\ Len(cg.calls) = 9
    /\ c.resp.tried[1].status = 0 /\ c.resp.tried[2].status = 500
    /\ c.resp.tried[9] = [engine |-> <<"tar-bz2">>, status |-> 500]

\* the directives a source is made of, for the sources of up to three tokens
SourceTokens ==
    {"\\documentclass", "\\directlua", "fontspec", "\\setmainfont", "polyglossia",
     "xeCJK", "x"}

ShortSources ==
    UNION {[1..n -> SourceTokens] : n \in 0..3}

\* the engine the claim assigns to a source
EngineBySource(tex) ==
    IF \E k \in 1..Len(tex) : tex[k] = "\\directlua" THEN <<"lualatex">>
    ELSE IF \E k \in 1..Len(tex) :
                tex[k] \in {"fontspec", "\\setmainfont", "polyglossia", "xeCJK"}
    THEN <<"xelatex">>
    ELSE <<"pdflatex">>

\* C28: the inferred engine is a function of the source: lualatex when the
\* source has \directlua, font directives or not; otherwise xelatex when it
\* has fontspec, \setmainfont, polyglossia or xeCJK; otherwise pdflatex. A
\* request that names no engine is first tried with the inferred one.
C28_InferencePriority ==
    /\ \A tex \in ShortSources : inferEngine(tex) = EngineBySource(tex)
    /\ (c.pc \in {"fetch", "body", "done"} /\ cg.calls # <<>>
          /\ (c.engine = Undefined \/ c.engine = <<>>)) =>
          cg.calls[1].engine = EngineBySource(c.tex)

\* C28 witness: a source with fontspec and \directlua, no engine named: the
\* first call went to lualatex
C28_Witness ==
    /\ c.pc = "fetch" /\ Len(cg.calls) = 1 /\ c.engine = <<>>
    /\ "fontspec" \in Range(c.tex) /\ "\\directlua" \in Range(c.tex)
    /\ cg.calls[1].engine = <<"lualatex">>

\* the request in progress names an engine (a non-empty string)
EngineGiven == c.engine # Undefined /\ c.engine # <<>>

\* C17: the trial order is [initial, xelatex, lualatex, pdflatex] without its
\* duplicates, first occurrences kept, where initial is the requested engine
\* when one is given and the inferred engine otherwise; the first call uses
\* initial and no engine is called twice with the same calling convention.
C17_TrialOrder ==
    c.pc \in {"fetch", "body", "done"} /\ cg.calls # <<>> =>
        LET initial == IF EngineGiven THEN c.engine ELSE inferEngine(c.tex)
            others == <<<<"xelatex">>, <<"lualatex">>, <<"pdflatex">>>>
        IN  /\ c.engines = <<initial>> \o SelectSeq(others, LAMBDA e : e # initial)
            /\ cg.calls[1].engine = initial
            /\ (~EngineGiven /\ "\\setmainfont" \in Range(c.tex)
                   /\ "\\directlua" \notin Range(c.tex)) =>
                  cg.calls[1].engine = <<"xelatex">>
            /\ \A i, j \in 1..Len(cg.calls) : i < j => cg.calls[i] # cg.calls[j]

\* C17 witness: engine omitted, a source with \setmainfont: xelatex went
\* first and the seven calls of three engines and the archive were made
C17_Witness ==
    /\ CompileDone /\ c.engine = Undefined /\ "\\setmainfont" \in Range(c.tex)
    /\ c.engines = <<XELATEX, LUALATEX, PDFLATEX>>
    /\ Len(cg.calls) = 7 /\ cg.calls[1] = [method |-> "POST", engine |-> XELATEX]

\* a parsed request to /api/compile without usable text has been answered
InvalidTextAnswered ==
    CompileDone /\ c.parsed
    /\ (c.tex = Undefined \/ c.tex = <<>> \/ DOCCLASS \notin Range(c.tex))

\* an upload whose form was parsed and whose file has a disallowed extension
\* or more than 5 MiB has been answered
InvalidFileAnswered ==
    UploadDone /\ u.hasFile /\ (~ExtAllowed(u.name) \/ u.size > 5 * 1024 * 1024)

\* C20: a compile request without text or without \documentclass, and an
\* upload with a disallowed extension or above the size ceiling, fail with a
\* 4xx status, no network call and no temporary file or directory.
C20_InvalidCompileFailsEarly ==
    /\ InvalidTextAnswered =>
          (c.resp.status \in 400..499 /\ cg.calls = <<>> /\ fsys = {})
    /\ InvalidFileAnswered =>
          (u.resp.status \in 400..499 /\ ~ug.called /\ ug.uploads = <<>> /\ fsys = {})

\* C20 witness: a .tex upload of one byte more than 5 MiB was answered 413
C20_Witness ==
    /\ InvalidFileAnswered /\ ExtAllowed(u.name) /\ u.size = 5 * 1024 * 1024 + 1
    /\ u.resp.status = 413 /\ ~ug.called /\ fsys = {}

----------------------------------------------------------------------------
\* Properties of the browser extension

\* the saves that completed, newest first, cut after the fifth
LastFiveSaved ==
    [k \in 1..(IF Len(saved) > 5 THEN 5 ELSE Len(saved)) |-> saved[Len(saved) - k + 1]]

\* C29: whenever no save is in progress, the stored history holds at most 5
\* items and is exactly the (up to) 5 most recently saved results, newest
\* first.
C29_HistoryIsLastFiveSaved ==
    (\A h \in Savers : sv.run[h].pc = "idle") =>
        (Len(history) <= 5 /\ history = LastFiveSaved)

\* C36: each of the (up to) 5 results saved last is in the stored history,
\* also while other saves are in progress.
C36_NoSaveLost ==
    \A k \in 1..Len(LastFiveSaved) : LastFiveSaved[k] \in Range(history)

\* a fetch that was rejected, or answered 429 or 5xx
FetchFailed(status) == status = 0 \/ status = 429 \/ status \in 500..599

\* C30: fetchWithRetry makes at most maxRetries calls; every call but the first
\* follows a failed call (a rejected fetch, a 429 or a 5xx) and a wait of
\* 1 s, 2 s, 4 s, ... (2^i s with the loop index i of the failed call); the
\* first response that is neither 429 nor 5xx is returned with no further
\* call; when every attempt failed, the function rejects with an
\* ExtensionError after exactly maxRetries calls.
C30_FetchWithRetryBounded ==
    fr.pc # "idle" =>
        /\ fr.calls <= (IF fr.maxRetries > 0 THEN fr.maxRetries ELSE 0)
        /\ Len(fr.seen) <= fr.calls /\ fr.calls <= Len(fr.seen) + 1
        /\ \A k \in 1..(Len(fr.seen) - 1) : FetchFailed(fr.seen[k])
        /\ \A k \in 1..Len(fr.waits) : fr.waits[k] = (2 ^ (k - 1)) * 1000
        /\ fr.pc = "fetch" =>
              /\ fr.calls = Len(fr.seen) + 1 /\ Len(fr.waits) = Len(fr.seen)
              /\ \A k \in 1..Len(fr.seen) : FetchFailed(fr.seen[k])
        /\ fr.pc = "backoff" =>
              /\ fr.calls = Len(fr.seen) /\ Len(fr.waits) = Len(fr.seen)
              /\ FetchFailed(fr.seen[Len(fr.seen)]) /\ fr.calls < fr.maxRetries
        /\ fr.pc = "returned" =>
              /\ fr.calls = Len(fr.seen) /\ Len(fr.waits) = Len(fr.seen) - 1
              /\ ~FetchFailed(fr.seen[Len(fr.seen)])
              /\ fr.result = [kind |-> "response", status |-> fr.seen[Len(fr.seen)],
                               code |-> "none"]
        /\ fr.pc = "rejected" =>
              /\ fr.calls = Len(fr.seen)
              /\ fr.calls = (IF fr.maxRetries > 0 THEN fr.maxRetries ELSE 0)
              /\ \A k \in 1..Len(fr.seen) : FetchFailed(fr.seen[k])
              /\ fr.result.kind = "ExtensionError"

\* C30 witness: with maxRetries = 3, a 429, a rejected fetch and a 500 ended
\* in a rejection after waits of 1 s and 2 s
C30_Witness ==
    /\ fr.pc = "rejected" /\ fr.maxRetries = 3 /\ fr.calls = 3
    /\ fr.seen = <<429, 0, 500>> /\ fr.waits = <<1000, 2000>>

\* C35: when fetchWithRetry rejects after its last attempt, the error code
\* is RATE_LIMIT if the last answer was 429, API_ERROR if it was a 5xx, and
\* NETWORK_ERROR if the last fetch was rejected.
C35_CodeReflectsLastFailure ==
    (fr.pc = "rejected" /\ fr.seen # <<>>) =>
        LET last == fr.seen[Len(fr.seen)] IN
        fr.result.code = IF last = 429 THEN "RATE_LIMIT"
                         ELSE IF last >= 500 THEN "API_ERROR"
                         ELSE "NETWORK_ERROR"

UploadAwaitsNetwork ==
    u.pc \in {"fetch1", "body1", "ctanFetch", "ctanBody", "fetch2", "body2"}

\* C10: every external network call, the reading of its response body
\* included, is bounded by an armed abort timer.
C10_EveryNetworkWaitHasTimeout ==
    UploadAwaitsNetwork => u.timer
====
